---- MODULE Spec2Model ----
(***************************************************************************)
(* Job registry (backend/app/job_manager.py), the background workers and   *)
(* the request handlers (backend/app/main.py) and the pipeline's registry  *)
(* updates (backend/app/inference.py) of the microbial segmentation app.   *)
(*                                                                         *)
(* The specifications share the registry operators:                        *)
(*   SpecRegistry  one thread calling the JobManager methods with every    *)
(*                 argument shape, on known and unknown job_ids.           *)
(*   SpecLock      two writer threads and a reader; the registry lock is a *)
(*                 variable and update_job writes one field per step while *)
(*                 it holds the lock.                                      *)
(*   Spec          the application: submissions, one worker thread per     *)
(*                 job, the results and delete handlers. Every registry    *)
(*                 method runs under the lock, so a worker's call is one   *)
(*                 step here.                                              *)
(*   SpecJob       the application with a single job submitted.            *)
(***************************************************************************)
EXTENDS Integers, Sequences, FiniteSets, TLC

VARIABLES
    jobs,       \* JobManager.jobs: job_id -> job dict (DOMAIN = the keys present)
    lock,       \* JobManager.lock: "free" or the thread holding it
    now,        \* the wall clock datetime.now() reads
    call,       \* per client thread: the update_job call in progress
    copies,     \* per thread: the dict object its last get_job / create_job built
    ret,        \* per thread: the reference that call returned
    retval,     \* per thread: the fields of the returned value when it was returned
    updates,    \* update_job / mark_* calls issued so far by the clients
    alone,      \* per job: what the calls made on it give in a registry of its own
    worker,     \* per job: its background thread (position, locals)
    inference_engine,   \* main.py's global: None or the engine instance
    engines,    \* InferenceEngine instances constructed so far
    upload_dir, \* per job: UPLOAD_DIR / job_id exists
    output_dir, \* per job: OUTPUT_DIR / job_id exists
    req,        \* the request handler running on the event loop
    nfail,      \* per job: mark_failed calls its worker has made
    fn          \* a library function called on its own: arguments, locals, result

regvars == <<jobs, lock, now, call, copies, ret, retval, updates, alone>>
appvars == <<worker, inference_engine, engines, upload_dir, output_dir, req, nfail, fn>>
sysvars == <<jobs, lock, now, call, copies, ret, retval, updates, alone,
             worker, inference_engine, engines, upload_dir, output_dir, req, nfail>>
vars == <<jobs, lock, now, call, copies, ret, retval, updates, alone,
          worker, inference_engine, engines, upload_dir, output_dir, req, nfail, fn>>

---------------------------------------------------------------------------
(* Bounds *)

\* the clock takes the values 0..MaxTime
MaxTime == 1
\* update_job / mark_failed / mark_completed calls issued in one run: by the one
\* thread of SpecRegistry, and by the writers of SpecLock together
MaxUpdates == 2
MaxLockUpdates == 3

---------------------------------------------------------------------------
(* Values *)

JobIds == {"A", "B"}
Threads == {"c1", "c2", "r"}

\* Python's None and a present value
None == <<>>
Some(v) == <<v>>

\* JobStatus
QUEUED == "queued"
RUNNING == "running"
COMPLETED == "completed"
FAILED == "failed"

\* JobStage
UPLOAD == "Upload"
PREPROCESSING == "Preprocessing"
INFERENCE == "Inference"
POSTPROCESSING == "Postprocessing"
VIDEO_GENERATION == "Video Generation"
SAVING_RESULTS == "Saving Results"

\* a message: a text and the two numbers an f-string puts into it (0, 0 if none)
Msg(text, a, b) == <<text, a, b>>

\* progress is kept in units of 1/ProgressUnit percent; the unit is divisible by
\* every total_frames up to 6, so the pipeline's idx / total_frames stay exact
ProgressUnit == 3 * 4 * 5
Pct(p) == p * ProgressUnit

\* the empty mapping {}
EmptyDict == [k \in {} |-> 0]

---------------------------------------------------------------------------
(* JobManager *)

\* the dict create_job builds
NewJob(job_id, file_type, filename, t) ==
    [job_id |-> job_id,
     status |-> QUEUED,
     progress |-> Pct(0),
     stage |-> UPLOAD,
     message |-> Msg("Job queued", 0, 0),
     file_type |-> file_type,
     filename |-> filename,
     created_at |-> t,
     updated_at |-> t,
     error |-> None,
     results |-> None]

\* self.jobs[job_id] = {...}: the entry is stored whether or not job_id was present
create_job(reg, job_id, file_type, filename, t) ==
    [k \in DOMAIN reg \cup {job_id} |->
        IF k = job_id THEN NewJob(job_id, file_type, filename, t) ELSE reg[k]]

\* update_job's keyword parameters, in the order its body tests them
FieldOrder == <<"status", "progress", "stage", "message", "error", "results">>

\* the defaults of update_job's parameters
NoArgs ==
    [status |-> None, progress |-> None, stage |-> None,
     message |-> None, error |-> None, results |-> None]

\* what job[f] = f stores: error and results are Optional fields of the dict
Stored(f, opt) == IF f \in {"error", "results"} THEN opt ELSE opt[1]

\* update_job testing `if f:` in place of `if f is not None:`: an empty error
\* string and an empty results mapping are not stored
WriteFieldTruthy(job, f, args) ==
    IF \/ args[f] = None
       \/ (f = "error" /\ args[f] = <<"">>)
       \/ (f = "results" /\ args[f] = <<[k \in {} |-> 0]>>)
    THEN job
    ELSE [job EXCEPT ![f] = IF f \in {"error", "results"} THEN args[f] ELSE args[f][1]]

\* if f is not None: job[f] = f
WriteField(job, f, args) ==
    IF args[f] # None THEN [job EXCEPT ![f] = Stored(f, args[f])] ELSE job

\* the tests of update_job from the k-th on
RECURSIVE WriteFrom(_, _, _)
WriteFrom(job, args, k) ==
    IF k > Len(FieldOrder) THEN job
    ELSE WriteFrom(WriteField(job, FieldOrder[k], args), args, k + 1)

\* update_job without the timestamp line
StampNothing(job, t) == job

\* job["updated_at"] = datetime.now().isoformat()
Stamp(job, t) == [job EXCEPT !.updated_at = t]

\* update_job, the whole body under the lock
update_job(reg, job_id, args, t) ==
    IF job_id \notin DOMAIN reg THEN reg
    ELSE [reg EXCEPT ![job_id] = Stamp(WriteFrom(@, args, 1), t)]

\* mark_failed without error=error
mark_failed_args_no_error(error) ==
    [NoArgs EXCEPT !.status = Some(FAILED), !.progress = Some(Pct(100))]

\* the arguments mark_failed passes to update_job
mark_failed_args(error) ==
    [NoArgs EXCEPT !.status = Some(FAILED), !.progress = Some(Pct(100)),
                   !.error = Some(error)]

\* mark_completed without results=results
mark_completed_args_no_results(results) ==
    [NoArgs EXCEPT !.status = Some(COMPLETED), !.progress = Some(Pct(100)),
                   !.stage = Some(SAVING_RESULTS),
                   !.message = Some(Msg("Processing completed", 0, 0))]

\* the arguments mark_completed passes to update_job
mark_completed_args(results) ==
    [NoArgs EXCEPT !.status = Some(COMPLETED), !.progress = Some(Pct(100)),
                   !.stage = Some(SAVING_RESULTS),
                   !.message = Some(Msg("Processing completed", 0, 0)),
                   !.results = Some(results)]

mark_failed(reg, job_id, error, t) == update_job(reg, job_id, mark_failed_args(error), t)

mark_completed(reg, job_id, results, t) ==
    update_job(reg, job_id, mark_completed_args(results), t)

\* a registry without the lock: a thread enters at any time
CanAcquireAlways(t) == TRUE

\* with self.lock: a thread enters only while no thread holds the lock
CanAcquire(t) == lock = "free"

\* get_job returning self.jobs[job_id] itself
get_job_live(t, job_id) == <<"reg", job_id>>

\* the reference get_job returns for a known job: a new dict, the copy
get_job_ref(t, job_id) == <<"copy", t>>

\* the dict a reference points to
Deref(ref) == IF ref[1] = "copy" THEN copies[ref[2]][1] ELSE jobs[ref[2]]

---------------------------------------------------------------------------
(* The pipeline's registry updates: inference.py *)

\* _run_inference_pipeline passes window_size=5
WindowSize == 5

\* create_frame_sequence: the center indices of the windows of n frames
create_frame_sequence(n, w) ==
    LET half == w \div 2
        count == IF n - half > half THEN n - 2 * half ELSE 0
    IN [i \in 1..count |-> half + i - 1]

\* a list with its entries put in front
PrependResult(series, x) == <<x>> \o series

\* all_biomass.append(biomass), all_components_list.append(components)
AppendResult(series, x) == Append(series, x)

Max(a, b) == IF a >= b THEN a ELSE b

\* the loop's progress without the division by total_frames
LoopProgressUndivided(base, span, idx, total) == Pct(base) + idx * Pct(span)

\* progress = base + (idx / total_frames) * span
LoopProgress(base, span, idx, total) == Pct(base) + (idx * Pct(span)) \div total

\* process_video / process_dataset: the first update
RunningArgs(kind) ==
    [NoArgs EXCEPT !.status = Some(RUNNING), !.stage = Some(PREPROCESSING),
                   !.progress = Some(Pct(5)),
                   !.message = Some(IF kind = "video"
                                    THEN Msg("Reading video frames", 0, 0)
                                    ELSE Msg("Loading dataset", 0, 0))]

WindowsArgs ==
    [NoArgs EXCEPT !.stage = Some(INFERENCE), !.progress = Some(Pct(10)),
                   !.message = Some(Msg("Creating temporal windows", 0, 0))]

InferArgs(idx, total) ==
    [NoArgs EXCEPT !.progress = Some(LoopProgress(10, 50, idx, total)),
                   !.message = Some(Msg("Inference: frame", idx + 1, total))]

PostArgs ==
    [NoArgs EXCEPT !.stage = Some(POSTPROCESSING), !.progress = Some(Pct(65)),
                   !.message = Some(Msg("Detecting division events", 0, 0))]

VideoGenArgs ==
    [NoArgs EXCEPT !.stage = Some(VIDEO_GENERATION), !.progress = Some(Pct(70)),
                   !.message = Some(Msg("Generating overlay frames", 0, 0))]

RenderArgs(idx, total) ==
    [NoArgs EXCEPT !.progress = Some(LoopProgress(70, 20, idx, total)),
                   !.message = Some(Msg("Rendering: frame", idx + 1, total))]

VideoArgs ==
    [NoArgs EXCEPT !.progress = Some(Pct(90)),
                   !.message = Some(Msg("Creating output video", 0, 0))]

SaveArgs ==
    [NoArgs EXCEPT !.progress = Some(Pct(95)),
                   !.message = Some(Msg("Saving metrics", 0, 0))]

\* the results dict of _run_inference_pipeline
Results(job_id, total) == [job_id |-> job_id, n_frames |-> total]

---------------------------------------------------------------------------
(* JobManager's readers *)

get_job(reg, job_id) == IF job_id \in DOMAIN reg THEN Some(reg[job_id]) ELSE None

get_job_status(reg, job_id) ==
    LET job == get_job(reg, job_id) IN
    IF job = None THEN None
    ELSE Some([job_id |-> job[1].job_id, status |-> job[1].status,
               progress |-> job[1].progress, stage |-> job[1].stage,
               message |-> job[1].message, error |-> job[1].error])

get_job_results(reg, job_id) ==
    LET job == get_job(reg, job_id) IN
    IF job = None THEN None
    ELSE IF job[1].status # COMPLETED THEN None
    ELSE job[1].results

---------------------------------------------------------------------------
(* Threads calling the registry: SpecRegistry (one thread, every argument    *)
(* shape) and SpecLock (two writers and a reader, the worker's calls)        *)

\* no thread started for the job; no request in progress
\* all_biomass, all_components_list: the window index of each entry appended;
\* detector_in: the two series detect_division_events was called with;
\* rendered: per-frame artifacts saved; video, csv: overlay.mp4 / metrics.csv written
NoWorker ==
    [pc |-> "none", kind |-> "video", nwin |-> 0, idx |-> 0, raised |-> FALSE, exc |-> "",
     all_biomass |-> <<>>, all_components_list |-> <<>>, detector_in |-> <<>>,
     rendered |-> 0, video |-> FALSE, csv |-> FALSE]
NoRequest == [op |-> "idle", job_id |-> "A", pc |-> "idle"]

\* no call in progress. via: the method called; given: the error or results
\* passed to mark_failed / mark_completed; pre: the registry when the lock was taken
Idle == [op |-> "idle", via |-> "idle", job_id |-> "A", args |-> NoArgs,
         given |-> None, pos |-> 0, pre |-> <<>>]

\* the first provided field at or after position k (Len + 1 if none)
RECURSIVE NextProvided(_, _)
NextProvided(args, k) ==
    IF k > Len(FieldOrder) THEN k
    ELSE IF args[FieldOrder[k]] # None THEN k
    ELSE NextProvided(args, k + 1)

\* update_job writing to one shared entry whatever job_id it is given
WriteTargetShared(c) == "A"

\* job = self.jobs[job_id]: the entry update_job writes to
WriteTarget(c) == c.job_id

\* the argument records passed to update_job: every subset of status, progress
\* and stage (mark_failed and mark_completed add message, error and results)
ClientUpdateArgs ==
    {[NoArgs EXCEPT !.status = s, !.progress = p, !.stage = g] :
        s \in {None, Some(RUNNING)}, p \in {None, Some(Pct(50))},
        g \in {None, Some(INFERENCE)}}

ClientErrors == {"", "boom"}
ClientResults == {EmptyDict, [n_frames |-> 1]}

\* no library function is being called on its own
NoCall == [op |-> "none"]

\* the registry empty, no thread, no request, no directory
Quiescent ==
    /\ jobs = <<>>
    /\ lock = "free"
    /\ now = 0
    /\ call = [t \in Threads |-> Idle]
    /\ copies = [t \in Threads |-> None]
    /\ ret = [t \in Threads |-> None]
    /\ retval = [t \in Threads |-> None]
    /\ updates = 0
    /\ alone = [j \in JobIds |-> None]
    /\ worker = [j \in JobIds |-> NoWorker]
    /\ inference_engine = None
    /\ engines = 0
    /\ upload_dir = [j \in JobIds |-> FALSE]
    /\ output_dir = [j \in JobIds |-> FALSE]
    /\ req = NoRequest
    /\ nfail = [j \in JobIds |-> 0]

RegInit == Quiescent /\ fn = NoCall

\* time passes
Tick ==
    /\ now < MaxTime
    /\ now' = now + 1
    /\ UNCHANGED <<jobs, lock, call, copies, ret, retval, updates, alone>>
    /\ UNCHANGED appvars

\* create_job: the store and the copy, under the lock
ClientCreate(t, job_id, file_type) ==
    /\ call[t].op = "idle"
    /\ CanAcquire(t)
    /\ jobs' = create_job(jobs, job_id, file_type, "f", now)
    /\ copies' = [copies EXCEPT ![t] = Some(jobs'[job_id])]
    /\ ret' = [ret EXCEPT ![t] = <<"copy", t>>]
    /\ retval' = [retval EXCEPT ![t] = Some(jobs'[job_id])]
    /\ alone' = [alone EXCEPT ![job_id] = Some(NewJob(job_id, file_type, "f", now))]
    /\ UNCHANGED <<lock, now, call, updates>>
    /\ UNCHANGED appvars

\* create_job as the application calls it: with a job_id not yet in the registry
ClientCreateNew(t, job_id, file_type) ==
    /\ job_id \notin DOMAIN jobs
    /\ ClientCreate(t, job_id, file_type)

\* get_job: the copy (or None), under the lock
ClientGet(t, job_id) ==
    /\ call[t].op = "idle"
    /\ CanAcquire(t)
    /\ IF job_id \in DOMAIN jobs
       THEN /\ copies' = [copies EXCEPT ![t] = Some(jobs[job_id])]
            /\ ret' = [ret EXCEPT ![t] = get_job_ref(t, job_id)]
            /\ retval' = [retval EXCEPT ![t] = Some(jobs[job_id])]
       ELSE /\ copies' = [copies EXCEPT ![t] = None]
            /\ ret' = [ret EXCEPT ![t] = None]
            /\ retval' = [retval EXCEPT ![t] = None]
    /\ UNCHANGED <<jobs, lock, now, call, updates, alone>>
    /\ UNCHANGED appvars

\* update_job (directly, or from mark_failed / mark_completed): takes the lock
ClientBegin(t, via, job_id, args, given) ==
    /\ call[t].op = "idle"
    /\ CanAcquire(t)
    /\ lock' = t
    /\ call' = [call EXCEPT ![t] =
                    [op |-> "update_job", via |-> via, job_id |-> job_id,
                     args |-> args, given |-> given,
                     pos |-> NextProvided(args, 1), pre |-> jobs]]
    /\ updates' = updates + 1
    /\ UNCHANGED <<jobs, now, copies, ret, retval, alone>>
    /\ UNCHANGED appvars

ClientUpdate(t, job_id, args) == ClientBegin(t, "update_job", job_id, args, None)

ClientMarkFailed(t, job_id, error) ==
    ClientBegin(t, "mark_failed", job_id, mark_failed_args(error), Some(error))

ClientMarkCompleted(t, job_id, results) ==
    ClientBegin(t, "mark_completed", job_id, mark_completed_args(results), Some(results))

\* one test of update_job's body that writes, while the lock is held
ClientWrite(t) ==
    LET c == call[t] IN
    /\ c.op = "update_job"
    /\ lock = t
    /\ c.job_id \in DOMAIN jobs
    /\ c.pos <= Len(FieldOrder)
    /\ jobs' = [jobs EXCEPT ![WriteTarget(c)] = WriteField(@, FieldOrder[c.pos], c.args)]
    /\ call' = [call EXCEPT ![t].pos = NextProvided(c.args, c.pos + 1)]
    /\ UNCHANGED <<lock, now, copies, ret, retval, updates, alone>>
    /\ UNCHANGED appvars

\* the end of update_job: the early return for an unknown job_id, or the
\* timestamp; either way the lock is released
ClientReturn(t) ==
    LET c == call[t] IN
    /\ c.op = "update_job"
    /\ lock = t
    /\ \/ /\ c.job_id \notin DOMAIN jobs
          /\ UNCHANGED <<jobs, alone>>
       \/ /\ c.job_id \in DOMAIN jobs
          /\ c.pos > Len(FieldOrder)
          /\ jobs' = [jobs EXCEPT ![WriteTarget(c)] = Stamp(@, now)]
          /\ alone' = [alone EXCEPT ![c.job_id] =
                Some(update_job([k \in {c.job_id} |-> alone[c.job_id][1]],
                                c.job_id, c.args, now)[c.job_id])]
    /\ lock' = "free"
    /\ call' = [call EXCEPT ![t] = Idle]
    /\ UNCHANGED <<now, copies, ret, retval, updates>>
    /\ UNCHANGED appvars

\* one thread, every method, every argument shape, known and unknown job_ids
RegNext ==
    \/ Tick
    \/ \E j \in JobIds : ClientCreate("c1", j, "video")
    \/ \E j \in JobIds, a \in ClientUpdateArgs :
          updates < MaxUpdates /\ ClientUpdate("c1", j, a)
    \/ \E j \in JobIds, e \in ClientErrors :
          updates < MaxUpdates /\ ClientMarkFailed("c1", j, e)
    \/ \E j \in JobIds, r \in ClientResults :
          updates < MaxUpdates /\ ClientMarkCompleted("c1", j, r)
    \/ ClientWrite("c1")
    \/ ClientReturn("c1")

SpecRegistry == RegInit /\ [][RegNext]_vars

\* the reader creates the jobs and reads them; each writer makes the calls a
\* worker makes on its own job
Writers == {"c1", "c2"}
JobOf(t) == IF t = "c1" THEN "A" ELSE "B"

LockNext ==
    \/ Tick
    \/ \E j \in JobIds : ClientCreateNew("r", j, "video")
    \/ \E j \in JobIds : ClientGet("r", j)
    \/ \E t \in Writers :
          updates < MaxLockUpdates /\ ClientUpdate(t, JobOf(t), RunningArgs("video"))
    \/ \E t \in Writers :
          updates < MaxLockUpdates /\ ClientMarkFailed(t, JobOf(t), "boom")
    \/ \E t \in Writers :
          updates < MaxLockUpdates /\ ClientMarkCompleted(t, JobOf(t), [n_frames |-> 1])
    \/ \E t \in Writers : ClientWrite(t)
    \/ \E t \in Writers : ClientReturn(t)

SpecLock == RegInit /\ [][LockNext]_vars

---------------------------------------------------------------------------
(* The application: Spec *)

\* the kinds of job: an uploaded .mp4, an uploaded .zip, a preloaded example
Kinds == {"video", "dataset", "example"}
FileType(kind) == IF kind = "video" THEN "video" ELSE "dataset"
FileName(kind) ==
    IF kind = "video" THEN "a.mp4" ELSE IF kind = "dataset" THEN "a.zip" ELSE "example"

W(j) == worker[j]

Goto(j, pc) == worker' = [worker EXCEPT ![j].pc = pc]
\* an exception with message e is raised and control passes to the handler at pc
Raise(j, pc, e) ==
    worker' = [worker EXCEPT ![j].pc = pc, ![j].raised = TRUE, ![j].exc = e]

\* upload_file: the file is saved, the job created, the thread started
Upload(j, kind) ==
    /\ kind \in {"video", "dataset"}
    /\ req.op = "idle"
    /\ j \notin DOMAIN jobs
    /\ upload_dir' = [upload_dir EXCEPT ![j] = TRUE]
    /\ jobs' = create_job(jobs, j, FileType(kind), FileName(kind), now)
    /\ worker' = [worker EXCEPT ![j] = [NoWorker EXCEPT !.pc = "start", !.kind = kind]]
    /\ UNCHANGED <<lock, now, call, copies, ret, retval, updates, alone, fn>>
    /\ UNCHANGED <<inference_engine, engines, output_dir, req, nfail>>

\* process_example: the job created, the thread started
ProcessExample(j) ==
    /\ req.op = "idle"
    /\ j \notin DOMAIN jobs
    /\ jobs' = create_job(jobs, j, "dataset", FileName("example"), now)
    /\ worker' = [worker EXCEPT ![j] = [NoWorker EXCEPT !.pc = "start", !.kind = "example"]]
    /\ UNCHANGED <<lock, now, call, copies, ret, retval, updates, alone, fn>>
    /\ UNCHANGED <<inference_engine, engines, upload_dir, output_dir, req, nfail>>

WorkerFrame == UNCHANGED <<lock, now, call, copies, ret, retval, updates, alone, req, fn>>

\* get_inference_engine: the test of the global
WStart(j) ==
    /\ W(j).pc = "start"
    /\ Goto(j, IF inference_engine = None THEN "construct" ELSE "begin")
    /\ WorkerFrame
    /\ UNCHANGED <<jobs, inference_engine, engines, upload_dir, output_dir, nfail>>

\* get_inference_engine: InferenceEngine() and the assignment, or its failure
WConstruct(j) ==
    /\ W(j).pc = "construct"
    /\ \/ /\ inference_engine' = Some(engines + 1)
          /\ engines' = engines + 1
          /\ Goto(j, "begin")
       \/ /\ Raise(j, "outer_except", "Model load failed")
          /\ UNCHANGED <<inference_engine, engines>>
    /\ WorkerFrame
    /\ UNCHANGED <<jobs, upload_dir, output_dir, nfail>>

\* process_video / process_dataset: status Running
WBegin(j) ==
    /\ W(j).pc = "begin"
    /\ jobs' = update_job(jobs, j, RunningArgs(W(j).kind), now)
    /\ Goto(j, "read")
    /\ WorkerFrame
    /\ UNCHANGED <<inference_engine, engines, upload_dir, output_dir, nfail>>

\* the frames are read (n of them) and the output directory made
WRead(j, n) ==
    /\ W(j).pc = "read"
    /\ \/ /\ W(j).kind # "video" /\ n = 0
          /\ Raise(j, "inner_except", "No frames found in dataset")
          /\ UNCHANGED output_dir
       \/ /\ n = 0
          /\ Raise(j, "inner_except", "Cannot open input")
          /\ UNCHANGED output_dir
       \/ /\ W(j).kind = "video" \/ n > 0
          /\ worker' = [worker EXCEPT ![j].pc = "windows",
                           ![j].nwin = Len(create_frame_sequence(n, WindowSize)),
                           ![j].idx = 0]
          /\ output_dir' = [output_dir EXCEPT ![j] = TRUE]
    /\ WorkerFrame
    /\ UNCHANGED <<jobs, inference_engine, engines, upload_dir, nfail>>

\* stage Inference, then the windowing
WWindows(j) ==
    /\ W(j).pc = "windows"
    /\ jobs' = update_job(jobs, j, WindowsArgs, now)
    /\ \/ Goto(j, IF W(j).nwin = 0 THEN "post" ELSE "infer")
       \/ Raise(j, "inner_except", "Windowing failed")
    /\ WorkerFrame
    /\ UNCHANGED <<inference_engine, engines, upload_dir, output_dir, nfail>>

\* one pass of the inference loop: the progress update, then the window
WInfer(j) ==
    LET idx == W(j).idx
        total == W(j).nwin IN
    /\ W(j).pc = "infer"
    /\ jobs' = IF idx % Max(1, total \div 20) = 0
               THEN update_job(jobs, j, InferArgs(idx, total), now)
               ELSE jobs
    /\ \/ worker' = [worker EXCEPT ![j].idx = IF idx + 1 < total THEN idx + 1 ELSE 0,
                                   ![j].pc = IF idx + 1 < total THEN "infer" ELSE "post",
                                   ![j].all_biomass = AppendResult(@, idx),
                                   ![j].all_components_list = AppendResult(@, idx)]
       \/ Raise(j, "inner_except", "")
    /\ WorkerFrame
    /\ UNCHANGED <<inference_engine, engines, upload_dir, output_dir, nfail>>

\* stage Postprocessing, the division events and the growth rates
WPost(j) ==
    /\ W(j).pc = "post"
    /\ jobs' = update_job(jobs, j, PostArgs, now)
    /\ worker' = [worker EXCEPT ![j].pc = "videogen",
                                ![j].detector_in = Some([biomass |-> W(j).all_biomass,
                                                         component_counts |-> W(j).all_components_list])]
    /\ WorkerFrame
    /\ UNCHANGED <<inference_engine, engines, upload_dir, output_dir, nfail>>

\* stage Video Generation
WVideoGen(j) ==
    /\ W(j).pc = "videogen"
    /\ jobs' = update_job(jobs, j, VideoGenArgs, now)
    /\ Goto(j, IF W(j).nwin = 0 THEN "video" ELSE "render")
    /\ WorkerFrame
    /\ UNCHANGED <<inference_engine, engines, upload_dir, output_dir, nfail>>

\* one pass of the rendering loop
WRender(j) ==
    LET idx == W(j).idx
        total == W(j).nwin IN
    /\ W(j).pc = "render"
    /\ jobs' = IF idx % Max(1, total \div 10) = 0
               THEN update_job(jobs, j, RenderArgs(idx, total), now)
               ELSE jobs
    /\ \/ worker' = [worker EXCEPT ![j].idx = IF idx + 1 < total THEN idx + 1 ELSE 0,
                                   ![j].pc = IF idx + 1 < total THEN "render" ELSE "video",
                                   ![j].rendered = @ + 1]
       \/ Raise(j, "inner_except", "Rendering failed")
    /\ WorkerFrame
    /\ UNCHANGED <<inference_engine, engines, upload_dir, output_dir, nfail>>

\* a video writer that accepts any list of frames
NoFramesAccepted(n) == FALSE

\* create_video_from_frames: if len(frames) == 0
NoFrames(n) == n = 0

\* progress 90, then create_video_from_frames
WVideo(j) ==
    /\ W(j).pc = "video"
    /\ jobs' = update_job(jobs, j, VideoArgs, now)
    /\ IF NoFrames(W(j).nwin)
       THEN Raise(j, "inner_except", "No frames to write")
       ELSE \/ worker' = [worker EXCEPT ![j].pc = "save", ![j].video = TRUE]
            \/ Raise(j, "inner_except", "Video writing failed")
    /\ WorkerFrame
    /\ UNCHANGED <<inference_engine, engines, upload_dir, output_dir, nfail>>

\* progress 95, then the metrics CSV
WSave(j) ==
    /\ W(j).pc = "save"
    /\ jobs' = update_job(jobs, j, SaveArgs, now)
    /\ IF ~output_dir[j]
       THEN Raise(j, "inner_except", "Cannot save file into a non-existent directory")
       ELSE \/ worker' = [worker EXCEPT ![j].pc = "complete", ![j].csv = TRUE]
            \/ Raise(j, "inner_except", "Saving failed")
    /\ WorkerFrame
    /\ UNCHANGED <<inference_engine, engines, upload_dir, output_dir, nfail>>

\* mark_completed, and the return to the background function
WComplete(j) ==
    /\ W(j).pc = "complete"
    /\ jobs' = mark_completed(jobs, j, Results(j, W(j).nwin), now)
    /\ Goto(j, IF W(j).kind = "example" THEN "done" ELSE "cleanup")
    /\ WorkerFrame
    /\ UNCHANGED <<inference_engine, engines, upload_dir, output_dir, nfail>>

\* process_video / process_dataset: except Exception: mark_failed; raise
WInnerExcept(j) ==
    /\ W(j).pc = "inner_except"
    /\ jobs' = mark_failed(jobs, j, W(j).exc, now)
    /\ nfail' = [nfail EXCEPT ![j] = @ + 1]
    /\ Goto(j, "outer_except")
    /\ WorkerFrame
    /\ UNCHANGED <<inference_engine, engines, upload_dir, output_dir>>

\* process_file_background: if upload_path.exists()
WCleanup(j) ==
    /\ W(j).pc = "cleanup"
    /\ Goto(j, IF upload_dir[j] THEN "rmtree" ELSE "done")
    /\ WorkerFrame
    /\ UNCHANGED <<jobs, inference_engine, engines, upload_dir, output_dir, nfail>>

\* process_file_background: shutil.rmtree(upload_path)
WRmtree(j) ==
    /\ W(j).pc = "rmtree"
    /\ IF upload_dir[j]
       THEN /\ upload_dir' = [upload_dir EXCEPT ![j] = FALSE]
            /\ Goto(j, "done")
       ELSE /\ Raise(j, "outer_except", "No such file or directory")
            /\ UNCHANGED upload_dir
    /\ WorkerFrame
    /\ UNCHANGED <<jobs, inference_engine, engines, output_dir, nfail>>

\* process_file_background / process_example_background: except Exception
WOuterExcept(j) ==
    /\ W(j).pc = "outer_except"
    /\ jobs' = mark_failed(jobs, j, W(j).exc, now)
    /\ nfail' = [nfail EXCEPT ![j] = @ + 1]
    /\ Goto(j, "done")
    /\ WorkerFrame
    /\ UNCHANGED <<inference_engine, engines, upload_dir, output_dir>>

HandlerFrame ==
    UNCHANGED <<jobs, lock, now, call, copies, ret, retval, updates, alone,
                worker, inference_engine, engines, nfail, fn>>

\* get_status: the response to a status query made now (one registry read)
get_status(j) ==
    LET status == get_job_status(jobs, j) IN
    IF status = None THEN [code |-> 404, body |-> None]
    ELSE [code |-> 200, body |-> status]

\* get_results: what the first read, get_job, decides: a response, or to go on
get_results_first(j) ==
    LET job == get_job(jobs, j) IN
    IF job = None THEN [code |-> 404, body |-> None]
    ELSE IF job[1].status = FAILED THEN [code |-> 500, body |-> Some(job[1].error)]
    ELSE IF job[1].status # COMPLETED THEN [code |-> 202, body |-> None]
    ELSE [code |-> 0, body |-> None]

\* get_results: the response after the second read, get_job_results
get_results_second(j) ==
    LET results == get_job_results(jobs, j) IN
    IF results = None \/ results = Some(EmptyDict) THEN [code |-> 404, body |-> None]
    ELSE [code |-> 200, body |-> results]

\* get_results: a request whose first read finds the job Completed goes on to the
\* second read; every other request is answered from the first read alone
GetResults(j) ==
    /\ req.op = "idle"
    /\ get_results_first(j).code = 0
    /\ req' = [op |-> "results", job_id |-> j, pc |-> "read2"]
    /\ HandlerFrame
    /\ UNCHANGED <<upload_dir, output_dir>>

GetResults2 ==
    /\ req.op = "results"
    /\ req' = NoRequest
    /\ HandlerFrame
    /\ UNCHANGED <<upload_dir, output_dir>>

\* delete_job: get_job finds the job (an unknown job_id is answered 404 at
\* once) and upload_path.exists() is tested
Delete(j) ==
    /\ req.op = "idle"
    /\ get_job(jobs, j) # None
    /\ req' = [op |-> "delete", job_id |-> j,
               pc |-> IF upload_dir[j] THEN "upload_rmtree" ELSE "output"]
    /\ HandlerFrame
    /\ UNCHANGED <<upload_dir, output_dir>>

\* delete_job: shutil.rmtree(upload_path); it raises if the directory is gone,
\* and the request ends with that exception
DeleteUpload ==
    LET j == req.job_id IN
    /\ req.op = "delete"
    /\ req.pc = "upload_rmtree"
    /\ IF upload_dir[j]
       THEN /\ upload_dir' = [upload_dir EXCEPT ![j] = FALSE]
            /\ req' = [req EXCEPT !.pc = "output"]
       ELSE /\ req' = NoRequest
            /\ UNCHANGED upload_dir
    /\ UNCHANGED output_dir
    /\ HandlerFrame

\* delete_job: the output directory is removed if it exists (only this
\* handler removes it), and the confirmation returned
DeleteOutput ==
    LET j == req.job_id IN
    /\ req.op = "delete"
    /\ req.pc = "output"
    /\ output_dir' = [output_dir EXCEPT ![j] = FALSE]
    /\ req' = NoRequest
    /\ UNCHANGED upload_dir
    /\ HandlerFrame

\* the step at which delete_job returns its confirmation for job j
DeleteReturns(j) ==
    /\ req.op = "delete" /\ req.job_id = j /\ req.pc = "output"
    /\ req' = NoRequest

\* the inputs have 0..MaxFrames frames when one job runs, 0..MaxFramesTwoJobs
\* when two do
MaxFrames == 7
MaxFramesTwoJobs == 5

Init == RegInit

Next ==
    \/ \E j \in JobIds, k \in Kinds : Upload(j, k)
    \/ \E j \in JobIds : ProcessExample(j)
    \/ \E j \in JobIds :
        \/ WStart(j) \/ WConstruct(j) \/ WBegin(j)
        \/ \E n \in 0..MaxFramesTwoJobs : WRead(j, n)
        \/ WWindows(j) \/ WInfer(j) \/ WPost(j) \/ WVideoGen(j) \/ WRender(j)
        \/ WVideo(j) \/ WSave(j) \/ WComplete(j) \/ WInnerExcept(j)
        \/ WCleanup(j) \/ WRmtree(j) \/ WOuterExcept(j)
    \/ \E j \in JobIds : GetResults(j) \/ Delete(j)
    \/ GetResults2
    \/ DeleteUpload
    \/ DeleteOutput

Spec == Init /\ [][Next]_vars

\* the application with one job_id ever issued
OneJob == {"A"}

NextJob ==
    \/ \E j \in OneJob, k \in Kinds : Upload(j, k)
    \/ \E j \in OneJob : ProcessExample(j)
    \/ \E j \in OneJob :
        \/ WStart(j) \/ WConstruct(j) \/ WBegin(j)
        \/ \E n \in 0..MaxFrames : WRead(j, n)
        \/ WWindows(j) \/ WInfer(j) \/ WPost(j) \/ WVideoGen(j) \/ WRender(j)
        \/ WVideo(j) \/ WSave(j) \/ WComplete(j) \/ WInnerExcept(j)
        \/ WCleanup(j) \/ WRmtree(j) \/ WOuterExcept(j)
    \/ \E j \in OneJob : GetResults(j) \/ Delete(j)
    \/ GetResults2
    \/ DeleteUpload
    \/ DeleteOutput

SpecJob == Init /\ [][NextJob]_vars

---------------------------------------------------------------------------
(* create_frame_sequence called on its own: SpecWindows *)

\* the inputs have 0..MaxWindowFrames frames
MaxWindowFrames == 6
\* the odd window sizes tried, and the contents a frame can have
WindowSizes == {1, 3, 5}
FrameValues == {"x", "y"}

\* Python's seq[k], k counted from 0
At(seq, k) == seq[k + 1]

\* a range stopping one index early
RangeStopShort(len, half_window) == len - half_window - 1

\* range(half_window, len(all_frames) - half_window): where the loop stops
RangeStop(len, half_window) == len - half_window

\* a window read from its last frame back to its first
WindowIndexReversed(center_idx, half_window, i) == center_idx + half_window - i

\* all_frames[center_idx - half_window + i]: the index read for position i
WindowIndex(center_idx, half_window, i) == center_idx - half_window + i

\* [all_frames[center_idx - half_window + i] for i in range(window_size)]
window_frames(all_frames, center_idx, half_window, window_size) ==
    [k \in 1..window_size |-> At(all_frames, WindowIndex(center_idx, half_window, k - 1))]

WindowsInit ==
    /\ Quiescent
    /\ \E n \in 0..MaxWindowFrames :
         \E all_frames \in [1..n -> FrameValues], w \in WindowSizes :
            fn = [op |-> "create_frame_sequence", all_frames |-> all_frames,
                  window_size |-> w, half_window |-> w \div 2,
                  center_idx |-> w \div 2, sequences |-> <<>>, pc |-> "for"]

\* one pass of the for loop: the window is built and appended with its center
WindowsLoop ==
    /\ fn.pc = "for"
    /\ fn.center_idx < RangeStop(Len(fn.all_frames), fn.half_window)
    /\ fn' = [fn EXCEPT
                !.sequences = Append(@, <<fn.center_idx,
                    window_frames(fn.all_frames, fn.center_idx,
                                  fn.half_window, fn.window_size)>>),
                !.center_idx = @ + 1]
    /\ UNCHANGED sysvars

\* the range is exhausted: return sequences
WindowsReturn ==
    /\ fn.pc = "for"
    /\ fn.center_idx >= RangeStop(Len(fn.all_frames), fn.half_window)
    /\ fn' = [fn EXCEPT !.pc = "return"]
    /\ UNCHANGED sysvars

WindowsNext == WindowsLoop \/ WindowsReturn

SpecWindows == WindowsInit /\ [][WindowsNext]_vars

---------------------------------------------------------------------------
(* build_13channel_input called on its own: SpecFeatures *)

\* the windows passed have 0..MaxWindowLen frames
MaxWindowLen == 6
\* the shapes a frame can have
Shapes == {"HxW", "HxV"}

\* the length build_13channel_input asserts, and the passes of its flow loop
ExpectedFrames == 5
FlowPairs == 4

\* the two flow channels of a pair, vertical first
FlowChannelsSwapped(i) == <<<<"flow_y", i>>, <<"flow_x", i>>>>

\* flow_channels.append(flow_x); flow_channels.append(flow_y) for the pair (i, i+1)
FlowChannels(i) == <<<<"flow_x", i>>, <<"flow_y", i>>>>

\* the flow_method arguments passed, and those compute_optical_flow knows
Methods == {"farneback", "dis", "lk"}
KnownMethods == {"farneback", "dis"}

\* every frame has the shape of the first
SameShape(frames) == \A k \in 1..Len(frames) : frames[k] = frames[1]

FeaturesInit ==
    /\ Quiescent
    /\ \E n \in 0..MaxWindowLen :
         \E frames \in [1..n -> Shapes], flow_method \in Methods :
            fn = [op |-> "build_13channel_input", frames |-> frames,
                  flow_method |-> flow_method,
                  gray_stack |-> <<>>, flow_channels |-> <<>>, i |-> 0,
                  input_array |-> <<>>, pc |-> "assert", exc |-> ""]

\* assert len(frames) == 5
FeaturesAssert ==
    /\ fn.pc = "assert"
    /\ fn' = IF Len(fn.frames) = ExpectedFrames
             THEN [fn EXCEPT !.pc = "stack"]
             ELSE [fn EXCEPT !.pc = "raise", !.exc = "AssertionError"]
    /\ UNCHANGED sysvars

\* gray_stack = np.stack(frames, axis=0): raises unless all shapes are equal
FeaturesStack ==
    /\ fn.pc = "stack"
    /\ fn' = IF SameShape(fn.frames)
             THEN [fn EXCEPT !.pc = "flow",
                             !.gray_stack = [k \in 1..Len(fn.frames) |-> <<"frame", k - 1>>]]
             ELSE [fn EXCEPT !.pc = "raise", !.exc = "ValueError"]
    /\ UNCHANGED sysvars

\* one pass of for i in range(4): the flow of frames[i], frames[i + 1], which
\* compute_optical_flow refuses for a method it does not know
FeaturesFlow ==
    /\ fn.pc = "flow"
    /\ fn.i < FlowPairs
    /\ fn' = IF fn.flow_method \in KnownMethods
             THEN [fn EXCEPT !.flow_channels = @ \o FlowChannels(fn.i), !.i = @ + 1]
             ELSE [fn EXCEPT !.pc = "raise", !.exc = "ValueError"]
    /\ UNCHANGED sysvars

\* np.concatenate([gray_stack, flow_stack], axis=0) and the return
FeaturesReturn ==
    /\ fn.pc = "flow"
    /\ fn.i >= FlowPairs
    /\ fn' = [fn EXCEPT !.input_array = fn.gray_stack \o fn.flow_channels,
                        !.pc = "return"]
    /\ UNCHANGED sysvars

FeaturesNext == FeaturesAssert \/ FeaturesStack \/ FeaturesFlow \/ FeaturesReturn

SpecFeatures == FeaturesInit /\ [][FeaturesNext]_vars

---------------------------------------------------------------------------
(* clean_mask called on its own: SpecClean *)

\* min_area is drawn from 0..MaxMinArea
MaxMinArea == 4
\* the masks passed are 3 by 3
Rows == 0..2
Cols == 0..2
Cells == Rows \X Cols
\* the values a foreground pixel of the input mask can have
ForegroundValues == {1, 255}
\* the erosion_kernel_size arguments passed
KernelSizes == {0, 1, 3}

Abs(x) == IF x < 0 THEN -x ELSE x

\* two pixels sharing an edge (connectivity=1)
Adjacent4(a, b) == Abs(a[1] - b[1]) + Abs(a[2] - b[2]) = 1

\* two pixels sharing an edge or a corner (connectivity=2)
Adjacent8(a, b) == a # b /\ Abs(a[1] - b[1]) <= 1 /\ Abs(a[2] - b[2]) <= 1

\* the pixels of S connected to those of R
RECURSIVE Grow(_, _)
Grow(S, R) ==
    LET R2 == R \cup {x \in S : \E y \in R : Adjacent8(x, y)} IN
    IF R2 = R THEN R ELSE Grow(S, R2)

\* the position of a pixel in raster order
Raster(c) == c[1] * Cardinality(Cols) + c[2]

\* the first pixel of a component in raster order
First(K) == CHOOSE c \in K : \A d \in K : Raster(c) <= Raster(d)

\* measure.label: components are numbered from 1 in raster order of their
\* first pixel, the background is 0
label(mask_binary) ==
    LET S == {c \in Cells : mask_binary[c] # 0}
        Components == {Grow(S, {c}) : c \in S}
    IN  [c \in Cells |->
            IF c \notin S THEN 0
            ELSE Cardinality({K \in Components :
                                Raster(First(K)) <= Raster(First(Grow(S, {c})))})]

\* regionprops(labeled): one region per label, in label order
NumProps(labeled) == Cardinality({labeled[c] : c \in Cells} \ {0})

\* prop.area
Area(labeled, l) == Cardinality({c \in Cells : labeled[c] = l})

\* a component is kept when it is larger than min_area
AreaKeptStrict(area, min_area) == area > min_area

\* if prop.area >= min_area
AreaKept(area, min_area) == area >= min_area

\* cv2.getStructuringElement(cv2.MORPH_ELLIPSE, (k, k)) as offsets from the
\* anchor at its centre: the single pixel for k = 1, the cross for k = 3
Kernel(k) ==
    IF k = 1 THEN {<<0, 0>>}
    ELSE {<<0, 0>>, <<-1, 0>>, <<1, 0>>, <<0, -1>>, <<0, 1>>}

\* the maximum under the kernel
dilate(cleaned, kernel) ==
    [c \in Cells |->
        IF \E o \in kernel :
              LET x == <<c[1] + o[1], c[2] + o[2]>> IN
              x \in Cells /\ cleaned[x] = 1
        THEN 1 ELSE 0]

\* cv2.erode(cleaned, kernel, iterations=1): the minimum under the kernel,
\* pixels outside the image not counting
erode(cleaned, kernel) ==
    [c \in Cells |->
        IF \A o \in kernel :
              LET x == <<c[1] + o[1], c[2] + o[2]>> IN
              x \in Cells => cleaned[x] = 1
        THEN 1 ELSE 0]

Zeros == [c \in Cells |-> 0]

CleanInit ==
    /\ Quiescent
    /\ \E fg \in SUBSET Cells, v \in ForegroundValues,
          min_area \in 0..MaxMinArea, k \in KernelSizes :
            fn = [op |-> "clean_mask",
                  mask |-> [c \in Cells |-> IF c \in fg THEN v ELSE 0],
                  min_area |-> min_area, erosion_kernel_size |-> k,
                  mask_binary |-> Zeros, labeled |-> Zeros, props |-> 0,
                  prop |-> 1, cleaned |-> Zeros, pc |-> "binarize"]

\* mask_binary = (mask > 0).astype(np.uint8)
CleanBinarize ==
    /\ fn.pc = "binarize"
    /\ fn' = [fn EXCEPT !.mask_binary = [c \in Cells |-> IF fn.mask[c] > 0 THEN 1 ELSE 0],
                        !.pc = "label"]
    /\ UNCHANGED sysvars

\* labeled = measure.label(mask_binary, connectivity=2); props; cleaned = zeros
CleanLabel ==
    /\ fn.pc = "label"
    /\ LET labeled == label(fn.mask_binary) IN
       fn' = [fn EXCEPT !.labeled = labeled, !.props = NumProps(labeled),
                        !.prop = 1, !.cleaned = Zeros, !.pc = "for"]
    /\ UNCHANGED sysvars

\* one pass of for prop in props
CleanLoop ==
    /\ fn.pc = "for"
    /\ fn.prop <= fn.props
    /\ fn' = [fn EXCEPT
                !.cleaned = IF AreaKept(Area(fn.labeled, fn.prop), fn.min_area)
                            THEN [c \in Cells |->
                                    IF fn.labeled[c] = fn.prop THEN 1 ELSE fn.cleaned[c]]
                            ELSE @,
                !.prop = @ + 1]
    /\ UNCHANGED sysvars

\* if erosion_kernel_size > 0: erode once; return cleaned
CleanErode ==
    /\ fn.pc = "for"
    /\ fn.prop > fn.props
    /\ fn' = [fn EXCEPT
                !.cleaned = IF fn.erosion_kernel_size > 0
                            THEN erode(@, Kernel(fn.erosion_kernel_size))
                            ELSE @,
                !.pc = "return"]
    /\ UNCHANGED sysvars

CleanNext == CleanBinarize \/ CleanLabel \/ CleanLoop \/ CleanErode

SpecClean == CleanInit /\ [][CleanNext]_vars

---------------------------------------------------------------------------
(* classify_phenotype called on its own: SpecPhenotype *)

\* the straight regions passed are 1..MaxLine pixels long
MaxLine == 10
\* axis lengths, in tenths of a pixel
MinorLength == 10
MajorLengths == {10, 17, 18, 19, 20, 25, 29, 30, 40}
\* region areas, in pixels
Areas == {150, 200, 201}
\* region solidities, in hundredths
Solidities == {79, 80, 100}
\* the 1e-6 added to the short side of the bounding box is 1 / Million
Million == 1000000

\* regions with a positive minor axis
SolidRegions ==
    {[minor_axis_length |-> MinorLength, major_axis_length |-> major,
      bbox |-> <<0, 0, 10, 20>>, area |-> area, solidity |-> solidity] :
        major \in MajorLengths, area \in Areas, solidity \in Solidities}

\* straight regions (a row, a column or a diagonal of n pixels): their minor
\* axis length is 0 and their area is n; the major axis grows with n and is
\* not read for them
StraightRegions ==
    UNION {{[minor_axis_length |-> 0, major_axis_length |-> MinorLength * n,
             bbox |-> <<0, 0, hw[1], hw[2]>>, area |-> n, solidity |-> solidity] :
               hw \in {<<1, n>>, <<n, 1>>, <<n, n>>}, solidity \in Solidities} :
           n \in 1..MaxLine}

Min(a, b) == IF a < b THEN a ELSE b

\* the aspect ratio as a fraction <<numerator, denominator>>:
\* major / minor, or max(height, width) / (min(height, width) + 1e-6)
aspect_ratio(region) ==
    IF region.minor_axis_length > 0
    THEN <<region.major_axis_length, region.minor_axis_length>>
    ELSE LET height == region.bbox[3] - region.bbox[1]
             width == region.bbox[4] - region.bbox[2]
         IN  <<Max(height, width) * Million, Min(height, width) * Million + 1>>

\* ratio >= tenths / 10
AtLeast(ratio, tenths) == ratio[1] * 10 >= tenths * ratio[2]

PhenotypeInit ==
    /\ Quiescent
    /\ \E region \in SolidRegions \cup StraightRegions :
          fn = [op |-> "classify_phenotype", region |-> region,
                aspect_ratio |-> <<0, 1>>, tag |-> "", pc |-> "aspect"]

\* the if / else computing aspect_ratio
PhenotypeAspect ==
    /\ fn.pc = "aspect"
    /\ fn' = [fn EXCEPT !.aspect_ratio = aspect_ratio(fn.region), !.pc = "rules"]
    /\ UNCHANGED sysvars

\* the classification rules and their return
PhenotypeRules ==
    /\ fn.pc = "rules"
    /\ LET area == fn.region.area
           solidity == fn.region.solidity
       IN fn' = [fn EXCEPT
                   !.tag = IF AtLeast(fn.aspect_ratio, 30) THEN "elongated"
                           ELSE IF AtLeast(fn.aspect_ratio, 20) /\ ~AtLeast(fn.aspect_ratio, 30)
                                THEN (IF area > 200 THEN "rod_like" ELSE "other")
                           ELSE IF ~AtLeast(fn.aspect_ratio, 18) /\ solidity >= 80
                                THEN "compact"
                           ELSE "other",
                   !.pc = "return"]
    /\ UNCHANGED sysvars

PhenotypeNext == PhenotypeAspect \/ PhenotypeRules

SpecPhenotype == PhenotypeInit /\ [][PhenotypeNext]_vars

---------------------------------------------------------------------------
(* analyze_frame called on its own: SpecAnalyze *)

Phenotypes == {"rod_like", "elongated", "compact", "other"}

\* the pixels of the region with label l
Region(labeled, l) == {c \in Cells : labeled[c] = l}

\* the sum of the function f over a set of pixels
RECURSIVE SumOver(_, _)
SumOver(K, f) ==
    IF K = {} THEN 0
    ELSE LET c == CHOOSE x \in K : TRUE IN f[c] + SumOver(K \ {c}, f)

\* the second central moments of a region, times the square of its area:
\* rows, columns, mixed
Scatter(K) ==
    LET n == Cardinality(K)
        r == [c \in Cells |-> c[1]]
        k == [c \in Cells |-> c[2]]
        rr == [c \in Cells |-> c[1] * c[1]]
        kk == [c \in Cells |-> c[2] * c[2]]
        rk == [c \in Cells |-> c[1] * c[2]]
    IN  << n * SumOver(K, rr) - SumOver(K, r) * SumOver(K, r),
           n * SumOver(K, kk) - SumOver(K, k) * SumOver(K, k),
           n * SumOver(K, rk) - SumOver(K, r) * SumOver(K, k) >>

\* the pixels of the region lie on one straight line: its smaller inertia
\* eigenvalue, hence minor_axis_length, is 0 in exact arithmetic
Straight(K) == LET m == Scatter(K) IN m[1] * m[2] - m[3] * m[3] = 0

\* a straight region along a row or a column, where the 0 is exact in floating
\* point too
AxisAligned(K) == LET m == Scatter(K) IN m[1] = 0 \/ m[2] = 0

\* region.bbox
BBox(K) ==
    LET rows == {c[1] : c \in K}
        cols == {c[2] : c \in K}
        lo(S) == CHOOSE x \in S : \A y \in S : x <= y
        hi(S) == CHOOSE x \in S : \A y \in S : x >= y
    IN  <<lo(rows), lo(cols), hi(rows) + 1, hi(cols) + 1>>

\* (major_axis_length / minor_axis_length)^2 >= p / q for a region with a
\* positive minor axis: the ratio of the eigenvalues (t + s) / 2, (t - s) / 2 of
\* the inertia tensor, t its trace and s^2 its discriminant
AxisRatioAtLeast(K, p, q) ==
    LET m == Scatter(K)
        t == m[1] + m[2]
        d == (m[1] - m[2]) * (m[1] - m[2]) + 4 * m[3] * m[3]
    IN  d * (q + p) * (q + p) >= t * t * (p - q) * (p - q)

\* the classification rules of classify_phenotype on the outcome of its
\* comparisons: aspect_ratio >= 3.0, >= 2.0, >= 1.8, solidity >= 0.8
Rules(at_least_3, at_least_2, at_least_1_8, area, solid) ==
    IF at_least_3 THEN "elongated"
    ELSE IF at_least_2 /\ ~at_least_3 THEN (IF area > 200 THEN "rod_like" ELSE "other")
    ELSE IF ~at_least_1_8 /\ solid THEN "compact"
    ELSE "other"

\* classify_phenotype(prop) for the region K; zero_minor: minor_axis_length
\* came out as 0; solid: region.solidity >= 0.8
classify_phenotype(K, zero_minor, solid) ==
    IF zero_minor
    THEN LET ratio == aspect_ratio([minor_axis_length |-> 0, bbox |-> BBox(K)])
         IN  Rules(AtLeast(ratio, 30), AtLeast(ratio, 20), AtLeast(ratio, 18),
                   Cardinality(K), solid)
    ELSE Rules(AxisRatioAtLeast(K, 9, 1), AxisRatioAtLeast(K, 4, 1),
               AxisRatioAtLeast(K, 81, 25), Cardinality(K), solid)

\* the count of a phenotype raised by two
CountedTwice(phenotype_counts, phenotype) ==
    [phenotype_counts EXCEPT ![phenotype] = @ + 2]

\* phenotype_counts[phenotype] += 1
Counted(phenotype_counts, phenotype) ==
    [phenotype_counts EXCEPT ![phenotype] = @ + 1]

AnalyzeInit ==
    /\ Quiescent
    /\ \E fg \in SUBSET Cells :
          fn = [op |-> "analyze_frame",
                mask |-> [c \in Cells |-> IF c \in fg THEN 1 ELSE 0],
                biomass |-> 0, labeled |-> Zeros, props |-> 0, prop |-> 1,
                phenotype_counts |-> [p \in Phenotypes |-> 0],
                components |-> <<>>, pc |-> "biomass"]

\* biomass = compute_biomass(mask): int(np.sum(mask > 0))
AnalyzeBiomass ==
    /\ fn.pc = "biomass"
    /\ fn' = [fn EXCEPT !.biomass = Cardinality({c \in Cells : fn.mask[c] > 0}),
                        !.pc = "label"]
    /\ UNCHANGED sysvars

\* labeled = measure.label(mask, connectivity=2); props; the empty counts and list
AnalyzeLabel ==
    /\ fn.pc = "label"
    /\ LET labeled == label(fn.mask) IN
       fn' = [fn EXCEPT !.labeled = labeled, !.props = NumProps(labeled),
                        !.prop = 1,
                        !.phenotype_counts = [p \in Phenotypes |-> 0],
                        !.components = <<>>, !.pc = "for"]
    /\ UNCHANGED sysvars

\* one pass of for prop in props. The solidity of the region is left open
\* (either side of 0.8), and so is whether the minor axis of a diagonal line
\* comes out as exactly 0
AnalyzeLoop ==
    /\ fn.pc = "for"
    /\ fn.prop <= fn.props
    /\ LET K == Region(fn.labeled, fn.prop) IN
       \E solid \in BOOLEAN, zero_minor \in BOOLEAN :
          /\ zero_minor => Straight(K)
          /\ AxisAligned(K) => zero_minor
          /\ LET phenotype == classify_phenotype(K, zero_minor, solid) IN
             fn' = [fn EXCEPT
                      !.phenotype_counts = Counted(@, phenotype),
                      !.components = Append(@, [label |-> fn.prop,
                                                phenotype |-> phenotype,
                                                area |-> Area(fn.labeled, fn.prop),
                                                bbox |-> BBox(K)]),
                      !.prop = @ + 1]
    /\ UNCHANGED sysvars

\* return biomass, phenotype_counts, components
AnalyzeReturn ==
    /\ fn.pc = "for"
    /\ fn.prop > fn.props
    /\ fn' = [fn EXCEPT !.pc = "return"]
    /\ UNCHANGED sysvars

AnalyzeNext == AnalyzeBiomass \/ AnalyzeLabel \/ AnalyzeLoop \/ AnalyzeReturn

SpecAnalyze == AnalyzeInit /\ [][AnalyzeNext]_vars

---------------------------------------------------------------------------
(* detect_division_events and the growth rates of the pipeline: SpecDivision *)

\* the series passed have 0..MaxSeries entries
MaxSeries == 4
\* biomass values, and component counts
Biomass == {0, 1, 2}
ComponentCounts == {1, 2}
\* the growth_spike_std and component_increase_threshold arguments
SpikeStds == {1, 2}
IncreaseThresholds == {0, 1, 2}

\* all sequences over S of length 0..n
SeqsUpTo(S, n) == UNION {[1..k -> S] : k \in 0..n}

\* A rate is log2 * ln 2 + micro * (1e-6 / EpsilonUnits), or -inf (log of 0):
\* ln(cur / (prev + 1e-6)) = ln cur - ln prev - 1e-6 / prev for the biomass
\* values used (equal values, or powers of two), the 1e-6 being negligible
\* against ln 2
EpsilonUnits == 5 * 7 * 8 * 9
ZeroRate == [neg_inf |-> FALSE, log2 |-> 0, micro |-> 0]
MinusInf == [neg_inf |-> TRUE, log2 |-> 0, micro |-> 0]

\* log2 of a power of two
RECURSIVE Log2(_)
Log2(x) == IF x <= 1 THEN 0 ELSE 1 + Log2(x \div 2)

\* a rate without the 1e-6 in the denominator
LogRateExact(cur, prev) ==
    IF cur = 0 THEN MinusInf
    ELSE [neg_inf |-> FALSE, log2 |-> Log2(cur) - Log2(prev), micro |-> 0]

\* np.log(cur / (prev + 1e-6)) for prev > 0
LogRate(cur, prev) ==
    IF cur = 0 THEN MinusInf
    ELSE [neg_inf |-> FALSE,
          log2 |-> Log2(cur) - Log2(prev),
          micro |-> 0 - (EpsilonUnits \div prev)]

\* a rate that is -inf, not 0.0, after a frame without biomass
RateUnguarded(biomass, i) ==
    IF At(biomass, i - 1) > 0
    THEN LogRate(At(biomass, i), At(biomass, i - 1))
    ELSE MinusInf

\* the body of for i in range(1, len(biomass_history)): the rate of the
\* transition i-1 -> i
Rate(biomass, i) ==
    IF At(biomass, i - 1) > 0
    THEN LogRate(At(biomass, i), At(biomass, i - 1))
    ELSE ZeroRate

\* the body of for i in range(1, len(all_biomass)) in the pipeline
PipelineRate(biomass, i) ==
    IF At(biomass, i - 1) > 0
    THEN LogRate(At(biomass, i), At(biomass, i - 1))
    ELSE ZeroRate

\* the pipeline's loop followed by growth_rates.insert(0, 0.0)
PipelineRatesOf(all_biomass) ==
    <<ZeroRate>> \o [k \in 1..(Len(all_biomass) - 1) |-> PipelineRate(all_biomass, k)]

\* growth_rates as the loop builds it: entry i - 1 is the rate of i-1 -> i
RatesOf(biomass) == [k \in 1..(Len(biomass) - 1) |-> Rate(biomass, k)]

RECURSIVE Total(_)
Total(ints) == IF ints = <<>> THEN 0 ELSE Head(ints) + Total(Tail(ints))

\* the sign of a number given by its parts, the largest scale first
RECURSIVE Sign(_)
Sign(parts) ==
    IF parts = <<>> THEN 0
    ELSE IF Head(parts) > 0 THEN 1
    ELSE IF Head(parts) < 0 THEN -1
    ELSE Sign(Tail(parts))

\* a -inf among the rates makes mean_rate -inf and std_rate nan
Finite(rates) == \A k \in 1..Len(rates) : ~rates[k].neg_inf

\* len^2 times the variance under np.std, by scale: (ln 2)^2, ln 2 * 1e-6, 1e-12
Variance(rates) ==
    LET m == Len(rates)
        A == [k \in 1..m |-> rates[k].log2]
        C == [k \in 1..m |-> rates[k].micro]
    IN  << m * Total([k \in 1..m |-> A[k] * A[k]]) - Total(A) * Total(A),
           2 * (m * Total([k \in 1..m |-> A[k] * C[k]]) - Total(A) * Total(C)),
           m * Total([k \in 1..m |-> C[k] * C[k]]) - Total(C) * Total(C) >>

\* len times (growth_rates[i] - mean_rate), by scale: ln 2, 1e-6
Deviation(rates, i) ==
    LET m == Len(rates) IN
    << m * At(rates, i).log2 - Total([k \in 1..m |-> rates[k].log2]),
       m * At(rates, i).micro - Total([k \in 1..m |-> rates[k].micro]) >>

\* a growth spike whenever the rate is above the mean
SpikeAboveMean(rates, i, growth_spike_std, rounds_up) ==
    Finite(rates) /\ Sign(Deviation(rates, i)) > 0

\* std_rate > 0 and growth_rates[i] > mean_rate + growth_spike_std * std_rate;
\* when the two sides are equal in exact arithmetic the rounding of the
\* floating-point operations decides (rounds_up)
Spike(rates, i, growth_spike_std, rounds_up) ==
    /\ Finite(rates)
    /\ Sign(Variance(rates)) > 0
    /\ Sign(Deviation(rates, i)) > 0
    /\ LET d == Deviation(rates, i)
           v == Variance(rates)
           kk == growth_spike_std * growth_spike_std
           excess == Sign(<< d[1] * d[1] - kk * v[1],
                             2 * d[1] * d[2] - kk * v[2],
                             d[2] * d[2] - kk * v[3] >>)
       IN  excess > 0 \/ (excess = 0 /\ rounds_up)

\* the frame index taken to be the index of the rate
FrameIdxOfRate(i) == i

\* frame_idx = i + 1
FrameIdx(i) == i + 1

\* the comparison of the component change with a strict threshold
IncreaseStrict(comp_change, component_increase_threshold) ==
    comp_change > component_increase_threshold

\* component_increase = comp_change >= component_increase_threshold
Increase(comp_change, component_increase_threshold) ==
    comp_change >= component_increase_threshold

\* the event list with a new index put in front
InsertEvent(division_events, frame_idx) == <<frame_idx>> \o division_events

\* division_events.append(frame_idx)
AppendEvent(division_events, frame_idx) == Append(division_events, frame_idx)

DivisionInit ==
    /\ Quiescent
    /\ \E biomass_history \in SeqsUpTo(Biomass, MaxSeries),
          component_counts \in SeqsUpTo(ComponentCounts, MaxSeries),
          growth_spike_std \in SpikeStds,
          component_increase_threshold \in IncreaseThresholds,
          rounds_up \in BOOLEAN :
            fn = [op |-> "detect_division_events",
                  biomass_history |-> biomass_history,
                  component_counts |-> component_counts,
                  growth_spike_std |-> growth_spike_std,
                  component_increase_threshold |-> component_increase_threshold,
                  rounds_up |-> rounds_up,
                  growth_rates |-> <<>>, i |-> 0, division_events |-> <<>>,
                  calls |-> 1, previous |-> <<>>, pipeline_rates |-> <<>>,
                  pc |-> "start"]

\* if len(biomass_history) < 3: return []
DivisionShort ==
    /\ fn.pc = "start"
    /\ Len(fn.biomass_history) < 3
    /\ fn' = [fn EXCEPT !.division_events = <<>>, !.pc = "return"]
    /\ UNCHANGED sysvars

\* the loop computing growth_rates, and the statistics
DivisionRates ==
    /\ fn.pc = "start"
    /\ Len(fn.biomass_history) >= 3
    /\ fn' = [fn EXCEPT !.growth_rates = RatesOf(fn.biomass_history),
                        !.division_events = <<>>, !.i = 1, !.pc = "for"]
    /\ UNCHANGED sysvars

\* one pass of for i in range(1, len(growth_rates))
DivisionLoop ==
    /\ fn.pc = "for"
    /\ fn.i < Len(fn.growth_rates)
    /\ LET frame_idx == FrameIdx(fn.i)
           growth_spike == Spike(fn.growth_rates, fn.i, fn.growth_spike_std, fn.rounds_up)
           component_increase ==
               /\ frame_idx < Len(fn.component_counts)
               /\ frame_idx > 0
               /\ Increase(At(fn.component_counts, frame_idx)
                             - At(fn.component_counts, frame_idx - 1),
                           fn.component_increase_threshold)
       IN fn' = [fn EXCEPT
                   !.division_events = IF growth_spike \/ component_increase
                                       THEN AppendEvent(@, frame_idx) ELSE @,
                   !.i = @ + 1]
    /\ UNCHANGED sysvars

\* return division_events
DivisionReturn ==
    /\ fn.pc = "for"
    /\ fn.i >= Len(fn.growth_rates)
    /\ fn' = [fn EXCEPT !.pc = "return"]
    /\ UNCHANGED sysvars

\* a second call with the same arguments
DivisionAgain ==
    /\ fn.pc = "return"
    /\ fn.calls = 1
    /\ fn' = [fn EXCEPT !.previous = fn.division_events, !.calls = 2,
                        !.growth_rates = <<>>, !.i = 0, !.division_events = <<>>,
                        !.pc = "start"]
    /\ UNCHANGED sysvars

\* the pipeline's own growth rates, computed from the same biomass after the
\* detector has returned: the same loop, then growth_rates.insert(0, 0.0)
PipelineRates ==
    /\ fn.pc = "return"
    /\ fn.calls = 2
    /\ fn' = [fn EXCEPT !.pipeline_rates = PipelineRatesOf(fn.biomass_history),
                        !.pc = "rates"]
    /\ UNCHANGED sysvars

DivisionNext ==
    \/ DivisionShort
    \/ DivisionRates
    \/ DivisionLoop
    \/ DivisionReturn
    \/ DivisionAgain
    \/ PipelineRates

SpecDivision == DivisionInit /\ [][DivisionNext]_vars

---------------------------------------------------------------------------
(* _run_inference_pipeline on identical frames, with its data: SpecEndToEnd *)

\* 0..MaxIdentical identical frames are passed
MaxIdentical == 8
\* the sigmoid output of the predictor, in tenths: on the threshold or above it
Probabilities == {5, 10}
\* threshold = 0.5, in tenths
Half == 5
MinAreas == {0, 2}

\* (pred_mask > threshold).astype(np.float32)
Binary(pred_mask, threshold) ==
    [c \in Cells |-> IF pred_mask[c] > threshold THEN 1 ELSE 0]

\* clean_mask(pred_mask_binary, min_area=min_area) from the labelling of its
\* mask on: the regions kept, then the erosion with the default kernel size 3
clean_mask(labeled, min_area) ==
    erode([c \in Cells |->
             IF labeled[c] # 0 /\ AreaKept(Area(labeled, labeled[c]), min_area)
             THEN 1 ELSE 0],
          Kernel(3))

\* the rows of metrics.csv: one per entry of all_biomass
MetricsRows(all_biomass, growth_rates, component_counts, division_events) ==
    [k \in 1..Len(all_biomass) |->
        [frame |-> k - 1,
         area_pred |-> all_biomass[k],
         growth_pred |-> growth_rates[k],
         component_count |-> component_counts[k],
         division_like |->
            IF \E e \in 1..Len(division_events) : division_events[e] = k - 1
            THEN 1 ELSE 0]]

EndToEndInit ==
    /\ Quiescent
    /\ \E n \in 0..MaxIdentical, pred_mask \in [Cells -> Probabilities],
          min_area \in MinAreas, rounds_up \in BOOLEAN :
            fn = [op |-> "_run_inference_pipeline",
                  n_frames |-> n, pred_mask |-> pred_mask, threshold |-> Half,
                  min_area |-> min_area, rounds_up |-> rounds_up,
                  sequences |-> <<>>, idx |-> 0, pred_mask_binary |-> Zeros,
                  labeled |-> Zeros, pred_mask_clean |-> Zeros,
                  all_biomass |-> <<>>, all_components_list |-> <<>>,
                  biomass_history |-> <<>>, component_counts |-> <<>>,
                  growth_spike_std |-> 2, component_increase_threshold |-> 1,
                  growth_rates |-> <<>>, i |-> 0, division_events |-> <<>>,
                  pipeline_rates |-> <<>>, rows |-> <<>>, pc |-> "upload"]

EndToEndFrame ==
    UNCHANGED <<lock, now, call, copies, ret, retval, updates, alone, worker,
                inference_engine, engines, upload_dir, output_dir, req, nfail>>

\* the job is created, and process_video marks it running
EndToEndUpload ==
    /\ fn.pc = "upload"
    /\ jobs' = update_job(create_job(jobs, "A", "video", "f", now), "A",
                          RunningArgs("video"), now)
    /\ fn' = [fn EXCEPT !.pc = "windows"]
    /\ EndToEndFrame

\* stage Inference; sequences = create_frame_sequence(frames_normalized, window_size=5)
EndToEndWindows ==
    /\ fn.pc = "windows"
    /\ jobs' = update_job(jobs, "A", WindowsArgs, now)
    /\ LET sequences == create_frame_sequence(fn.n_frames, WindowSize) IN
       fn' = [fn EXCEPT !.sequences = sequences, !.idx = 0,
                        !.pc = IF Len(sequences) = 0 THEN "post" ELSE "infer"]
    /\ EndToEndFrame

\* one pass of the inference loop, up to the threshold and the labelling inside
\* clean_mask: the windows are identical, and so is the output of the predictor
EndToEndPredict ==
    LET idx == fn.idx
        total == Len(fn.sequences) IN
    /\ fn.pc = "infer"
    /\ jobs' = IF idx % Max(1, total \div 20) = 0
               THEN update_job(jobs, "A", InferArgs(idx, total), now)
               ELSE jobs
    /\ fn' = [fn EXCEPT !.pred_mask_binary = Binary(fn.pred_mask, fn.threshold),
                        !.labeled = label(Binary(fn.pred_mask, fn.threshold)),
                        !.pc = "clean"]
    /\ EndToEndFrame

\* the rest of clean_mask
EndToEndClean ==
    /\ fn.pc = "clean"
    /\ fn' = [fn EXCEPT !.pred_mask_clean = clean_mask(fn.labeled, fn.min_area),
                        !.pc = "analyze"]
    /\ UNCHANGED sysvars

\* analyze_frame(pred_mask_clean) and the three appends
EndToEndAnalyze ==
    LET idx == fn.idx
        total == Len(fn.sequences)
        biomass == Cardinality({c \in Cells : fn.pred_mask_clean[c] > 0})
        components == NumProps(label(fn.pred_mask_clean))
    IN
    /\ fn.pc = "analyze"
    /\ fn' = [fn EXCEPT !.idx = idx + 1,
                        !.pc = IF idx + 1 < total THEN "infer" ELSE "post",
                        !.all_biomass = AppendResult(@, biomass),
                        !.all_components_list = AppendResult(@, components)]
    /\ UNCHANGED sysvars

\* stage Postprocessing; detect_division_events(all_biomass, component_counts,
\* growth_spike_std=2.0, component_increase_threshold=1) is entered
EndToEndPost ==
    /\ fn.pc = "post"
    /\ jobs' = update_job(jobs, "A", PostArgs, now)
    /\ fn' = [fn EXCEPT !.biomass_history = fn.all_biomass,
                        !.component_counts = fn.all_components_list,
                        !.growth_spike_std = 2,
                        !.component_increase_threshold = 1,
                        !.pc = "start"]
    /\ EndToEndFrame

\* the detector has returned: the pipeline's own growth rates, then stage
\* Video Generation and the overlays
EndToEndGrowth ==
    /\ fn.pc = "return"
    /\ jobs' = update_job(jobs, "A", VideoGenArgs, now)
    /\ fn' = [fn EXCEPT !.pipeline_rates = PipelineRatesOf(fn.all_biomass),
                        !.pc = "video"]
    /\ EndToEndFrame

\* progress 90, then create_video_from_frames; its ValueError reaches
\* process_video, which marks the job failed
EndToEndVideo ==
    /\ fn.pc = "video"
    /\ IF NoFrames(Len(fn.all_biomass))
       THEN /\ jobs' = mark_failed(update_job(jobs, "A", VideoArgs, now), "A",
                                   "No frames to write", now)
            /\ fn' = [fn EXCEPT !.pc = "raised"]
       ELSE /\ jobs' = update_job(jobs, "A", VideoArgs, now)
            /\ fn' = [fn EXCEPT !.pc = "save"]
    /\ EndToEndFrame

\* progress 95; metrics_data, and df.to_csv
EndToEndSave ==
    /\ fn.pc = "save"
    /\ jobs' = update_job(jobs, "A", SaveArgs, now)
    /\ fn' = [fn EXCEPT !.rows = MetricsRows(fn.all_biomass, fn.pipeline_rates,
                                             fn.component_counts, fn.division_events),
                        !.pc = "complete"]
    /\ EndToEndFrame

\* job_manager.mark_completed(job_id, results)
EndToEndComplete ==
    /\ fn.pc = "complete"
    /\ jobs' = mark_completed(jobs, "A", Results("A", Len(fn.sequences)), now)
    /\ fn' = [fn EXCEPT !.pc = "done"]
    /\ EndToEndFrame

EndToEndNext ==
    \/ EndToEndUpload
    \/ EndToEndWindows
    \/ EndToEndPredict
    \/ EndToEndClean
    \/ EndToEndAnalyze
    \/ EndToEndPost
    \/ DivisionShort
    \/ DivisionRates
    \/ DivisionLoop
    \/ DivisionReturn
    \/ EndToEndGrowth
    \/ EndToEndVideo
    \/ EndToEndSave
    \/ EndToEndComplete

SpecEndToEnd == EndToEndInit /\ [][EndToEndNext]_vars

---------------------------------------------------------------------------
(* Properties *)

\* the status changes of one job that the lifecycle allows
StatusMoves ==
    {<<QUEUED, RUNNING>>, <<RUNNING, COMPLETED>>, <<RUNNING, FAILED>>}

\* C1: in every step, a job whose stored status changes moves along
\* Queued -> Running -> Completed or Queued -> Running -> Failed: never from
\* Queued to a terminal status, never backward, never out of Completed or Failed.
StatusOneDirectional ==
    [][\A j \in DOMAIN jobs :
          (j \in DOMAIN jobs' /\ jobs'[j].status # jobs[j].status)
              => <<jobs[j].status, jobs'[j].status>> \in StatusMoves]_vars

\* the worker of job j has ended after one of its steps raised
EndedByException(j) == W(j).pc = "done" /\ W(j).raised

\* the positions a worker passes through once an exception is raised
Handling == {"inner_except", "outer_except", "done"}

Whole(t) ==
    copies[t] # None =>
        /\ copies[t][1].status = COMPLETED => copies[t][1].results # None
        /\ copies[t][1].status = FAILED => copies[t][1].error # None

\* C3: no snapshot returned by get_job or create_job shows status Completed with
\* results null or status Failed with error null, and each snapshot a thread
\* receives equals the job as a whole number of calls left it (all of an
\* update's fields or none of them), although update_job writes field by field
SnapshotsAtomic ==
    /\ [](\A t \in Threads : Whole(t))
    /\ [][\A t \in Threads :
            (copies'[t] # copies[t] /\ copies'[t] # None)
                => copies'[t] = alone'[copies'[t][1].job_id]]_vars

\* the reader holds a snapshot of a job while a writer is in the middle of
\* mark_completed on it: the registry entry is Completed with results still null
SnapshotDuringUpdate ==
    \E t \in Writers :
        /\ lock = t
        /\ call[t].via = "mark_completed"
        /\ copies["r"] # None
        /\ copies["r"][1].job_id = call[t].job_id
        /\ copies["r"][1].status = RUNNING
        /\ jobs[call[t].job_id].status = COMPLETED
        /\ jobs[call[t].job_id].results = None

\* C4: the value a thread got from get_job (or create_job) keeps, field for
\* field, the contents it had when it was returned, whatever update_job,
\* mark_failed or mark_completed calls are made afterwards
SnapshotIndependent ==
    \A t \in Threads : ret[t] # None => Deref(ret[t]) = retval[t][1]

\* a value returned by get_job while the job was Running is still held after
\* the job's registry entry has become Completed
SnapshotOutlived ==
    /\ ret["r"] # None
    /\ retval["r"][1].status = RUNNING
    /\ jobs[retval["r"][1].job_id].status = COMPLETED
    /\ lock = "free"

\* the step in which thread t returns from update_job
Returns(t) == call[t].op = "update_job" /\ lock = t /\ lock' = "free"

\* what field f of a job holds after update_job(args) at time t, given what it
\* held before
Expected(before, f, args, t) ==
    IF f = "updated_at" THEN t
    ELSE IF f \in DOMAIN args /\ args[f] # None
         THEN (IF f \in {"error", "results"} THEN args[f] ELSE args[f][1])
    ELSE before[f]

\* C5: when update_job returns, on a known job every provided field holds the
\* provided value, updated_at holds the current time, every other field of the
\* job and every other job is as it was when the call began; on an unknown
\* job_id the registry is as it was when the call began, with no entry added
UpdateFrame ==
    [][\A t \in Threads : Returns(t) =>
          LET c == call[t] IN
          IF c.job_id \in DOMAIN c.pre
          THEN /\ DOMAIN jobs' = DOMAIN c.pre
               /\ \A k \in DOMAIN c.pre \ {c.job_id} : jobs'[k] = c.pre[k]
               /\ \A f \in DOMAIN c.pre[c.job_id] :
                      jobs'[c.job_id][f] = Expected(c.pre[c.job_id], f, c.args, now)
          ELSE jobs' = c.pre]_vars

\* update_job(status=Running) alone has been applied to job A, created at time
\* 0, at time 1, with no job B in the registry
UpdatedStatusOnly ==
    /\ DOMAIN jobs = {"A"}
    /\ lock = "free"
    /\ updates > 0
    /\ jobs["A"].status = RUNNING
    /\ jobs["A"].stage = UPLOAD
    /\ jobs["A"].progress = Pct(0)
    /\ jobs["A"].created_at = 0
    /\ jobs["A"].updated_at = 1

\* the fields of a job that create_job on a present job_id must leave alone
Kept == {"status", "progress", "stage", "error", "results"}

\* C6: a create_job step on a job_id not in the registry inserts a job with
\* status Queued and progress 0; on a job_id already present it leaves the
\* existing job's status, progress, stage, error and results as they were
CreateKeepsExisting ==
    [][\A t \in Threads, j \in JobIds :
          ClientCreate(t, j, "video") =>
              IF j \notin DOMAIN jobs
              THEN jobs'[j].status = QUEUED /\ jobs'[j].progress = Pct(0)
              ELSE \A f \in Kept : jobs'[j][f] = jobs[j][f]]_vars

\* C7: when delete_job returns its confirmation for job j, the job's entry is
\* no longer in the registry, a status query and a results query for j answer
\* 404, and the job's upload and output directories do not exist
DeletedJobGone ==
    [][\A j \in JobIds :
          DeleteReturns(j) =>
              /\ j \notin DOMAIN jobs'
              /\ get_status(j)'.code = 404
              /\ get_results_first(j)'.code = 404
              /\ ~upload_dir'[j]
              /\ ~output_dir'[j]]_vars

\* C8: when mark_completed(job_id, results) returns on a known job, the job has
\* status Completed, progress 100 and results equal to the given results, the
\* empty mapping included; and the update is atomic: whenever the lock is free,
\* a Completed job has its results
MarkCompletedApplied ==
    /\ [][\A t \in Threads :
            (Returns(t) /\ call[t].via = "mark_completed"
                        /\ call[t].job_id \in DOMAIN call[t].pre) =>
                /\ jobs'[call[t].job_id].status = COMPLETED
                /\ jobs'[call[t].job_id].progress = Pct(100)
                /\ jobs'[call[t].job_id].results = call[t].given]_vars
    /\ [](lock = "free" =>
            \A j \in DOMAIN jobs : jobs[j].status = COMPLETED => jobs[j].results # None)

\* mark_completed has stored an empty mapping as the results of job A
CompletedWithEmptyResults ==
    /\ "A" \in DOMAIN jobs
    /\ lock = "free"
    /\ jobs["A"].status = COMPLETED
    /\ jobs["A"].progress = Pct(100)
    /\ jobs["A"].results = Some(EmptyDict)

\* C9: a step in which the worker of job j calls mark_failed(j, error) leaves
\* the job with status Failed, progress 100 and error equal to the given
\* string (the empty string included), and stage, message and results as they
\* were; from then on the status query for j answers 200 with that error,
\* whatever requests (delete included) are served
FailedRecorded ==
    /\ [][\A j \in JobIds :
            nfail'[j] = nfail[j] + 1 =>
                /\ jobs'[j].status = FAILED
                /\ jobs'[j].progress = Pct(100)
                /\ jobs'[j].error = Some(W(j).exc)
                /\ jobs'[j].stage = jobs[j].stage
                /\ jobs'[j].message = jobs[j].message
                /\ jobs'[j].results = jobs[j].results]_vars
    /\ [](\A j \in JobIds :
            nfail[j] > 0 =>
                /\ get_status(j).code = 200
                /\ get_status(j).body[1].status = FAILED
                /\ get_status(j).body[1].error = Some(W(j).exc))

\* the inference loop raised an exception with an empty message: the job is
\* Failed with error "", still at stage Inference, its worker has ended
FailedWithEmptyError ==
    \E j \in JobIds :
        /\ W(j).pc = "done"
        /\ nfail[j] > 0
        /\ jobs[j].status = FAILED
        /\ jobs[j].error = Some("")
        /\ jobs[j].stage = INFERENCE
        /\ get_status(j).body[1].error = Some("")

\* C10: with the calls on A made by one thread and the calls on B by another,
\* in any interleaving, each job is, whenever no call is running, what the
\* calls made on it give in a registry holding that job alone; and no step of
\* a call on one job changes a field of the other
CallsIndependent ==
    /\ [](lock = "free" => \A j \in DOMAIN jobs : Some(jobs[j]) = alone[j])
    /\ [][\A t \in Writers :
            (lock = t /\ call[t].op = "update_job") =>
                \A k \in DOMAIN jobs \ {call[t].job_id} :
                    k \in DOMAIN jobs' /\ jobs'[k] = jobs[k]]_vars

\* calls on A and on B have been interleaved: A was set Running, then B was
\* marked Failed, and now mark_completed is running on A
InterleavedCalls ==
    /\ DOMAIN jobs = JobIds
    /\ lock = "c1"
    /\ call["c1"].via = "mark_completed"
    /\ jobs["A"].stage = PREPROCESSING
    /\ jobs["A"].status = COMPLETED
    /\ jobs["B"].status = FAILED
    /\ jobs["B"].updated_at > jobs["A"].updated_at

\* what the first read of get_results answers for job j in the current state
\* agrees with the job's stored status
FirstReadAnswers(j) ==
    LET r == get_results_first(j) IN
    /\ r.code = 404 <=> j \notin DOMAIN jobs
    /\ j \in DOMAIN jobs =>
          /\ r.code = 500 <=> jobs[j].status = FAILED
          /\ r.code = 500 => r.body = Some(jobs[j].error)
          /\ r.code = 202 <=> jobs[j].status \in {QUEUED, RUNNING}
          /\ r.code = 0 <=> jobs[j].status = COMPLETED

\* C11: the status query answers 404 exactly for an unknown job_id; the results
\* query answers 404 exactly for an unknown job_id, 202 for a Queued or Running
\* job, 500 with the stored error for a Failed job, and a request that found
\* the job Completed at its first read answers 200 with the stored results
\* after its second read, whatever the job's worker does between the two reads
ResultsQueryAnswers ==
    /\ [](\A j \in JobIds :
            /\ get_status(j).code = 404 <=> j \notin DOMAIN jobs
            /\ FirstReadAnswers(j))
    /\ [][(req.op = "results" /\ req' = NoRequest) =>
            /\ get_results_second(req.job_id).code = 200
            /\ get_results_second(req.job_id).body = jobs[req.job_id].results]_vars

\* the messages of the exceptions raised for an unreadable or empty input
InputErrors == {"Cannot open input", "No frames found in dataset"}

\* C12: an unreadable input is rejected by the submission request: no worker
\* thread ever meets the input's error, and no job in the registry is Failed
\* with it
InputRejectedAtSubmission ==
    \A j \in JobIds :
        /\ ~(W(j).raised /\ W(j).exc \in InputErrors)
        /\ j \in DOMAIN jobs =>
              ~(jobs[j].status = FAILED /\ jobs[j].error \in {Some(e) : e \in InputErrors})

\* the window indices 0 .. n-1 in increasing order
InOrder(n) == [k \in 1..n |-> k - 1]

\* C13: detect_division_events is called only when every window has been
\* predicted, cleaned and analysed, with the biomass and component-count series
\* holding the k-th window's result at entry k; frames are rendered, the video
\* and the metrics file written only after that call; and mark_completed (the
\* only writer of results) is called only after the metrics file is written
PipelineOrder ==
    \A j \in JobIds :
        /\ W(j).detector_in # None =>
              /\ W(j).detector_in[1].biomass = InOrder(W(j).nwin)
              /\ W(j).detector_in[1].component_counts = InOrder(W(j).nwin)
        /\ (W(j).rendered > 0 \/ W(j).video \/ W(j).csv) => W(j).detector_in # None
        /\ W(j).video => W(j).rendered = W(j).nwin
        /\ W(j).csv => W(j).video
        /\ j \in DOMAIN jobs => (jobs[j].results # None => W(j).csv)

\* a job with three windows has been marked Completed
ThreeWindowsCompleted ==
    \E j \in JobIds :
        /\ j \in DOMAIN jobs
        /\ jobs[j].status = COMPLETED
        /\ W(j).nwin = 3
        /\ W(j).detector_in = Some([biomass |-> <<0, 1, 2>>,
                                    component_counts |-> <<0, 1, 2>>])
        /\ W(j).csv

\* the position of a stage in the order of the stages
StageRank(g) ==
    CASE g = UPLOAD -> 0
      [] g = PREPROCESSING -> 1
      [] g = INFERENCE -> 2
      [] g = POSTPROCESSING -> 3
      [] g = VIDEO_GENERATION -> 4
      [] g = SAVING_RESULTS -> 5

\* C14: every progress value stored for a job lies in [0, 100] and is not
\* below the value stored before it, on the failure paths too, and the stored
\* stage never moves back in the order Upload, Preprocessing, Inference,
\* Postprocessing, Video Generation, Saving Results
ProgressMonotone ==
    /\ [](\A j \in DOMAIN jobs :
            jobs[j].progress >= Pct(0) /\ jobs[j].progress <= Pct(100))
    /\ [][\A j \in DOMAIN jobs :
            j \in DOMAIN jobs' =>
                /\ jobs'[j].progress >= jobs[j].progress
                /\ StageRank(jobs'[j].stage) >= StageRank(jobs[j].stage)]_vars

\* the rendering loop of a job with three windows has written the progress of
\* its last pass, 70 + (2/3) * 20
LastRenderProgress ==
    \E j \in DOMAIN jobs :
        /\ W(j).nwin = 3
        /\ jobs[j].stage = VIDEO_GENERATION
        /\ jobs[j].message = Msg("Rendering: frame", 3, 3)
        /\ 3 * jobs[j].progress = 3 * Pct(70) + 2 * Pct(20)

\* the center indices of the windows returned
Centers == [k \in 1..Len(fn.sequences) |-> fn.sequences[k][1]]

\* C15: for N frames and an odd window size W, create_frame_sequence returns
\* N - W + 1 windows when N >= W, their center indices being W \div 2,
\* W \div 2 + 1, ..., N - 1 - W \div 2 in increasing order, and no window when
\* N < W; these are the centers the pipeline's window count is taken from
WindowCount ==
    fn.pc = "return" =>
        LET N == Len(fn.all_frames)
            size == fn.window_size
        IN /\ Len(fn.sequences) = (IF N >= size THEN N - size + 1 ELSE 0)
           /\ \A k \in 1..Len(fn.sequences) : Centers[k] = (size \div 2) + k - 1
           /\ N >= size => Centers[Len(fn.sequences)] = N - 1 - (size \div 2)
           /\ Centers = create_frame_sequence(N, size)

\* six frames and window size 5 have given two windows
TwoWindowsOfFive ==
    /\ fn.pc = "return"
    /\ Len(fn.all_frames) = 6
    /\ fn.window_size = 5
    /\ Centers = <<2, 3>>

\* three frames and window size 5 have given no window
NoWindowForShortInput ==
    /\ fn.pc = "return"
    /\ Len(fn.all_frames) = 3
    /\ fn.window_size = 5
    /\ fn.sequences = <<>>

\* C16: every window built holds exactly window_size frames, the input frames
\* at the consecutive indices center - W \div 2 .. center + W \div 2 in their
\* order, the center frame in the middle; the input list is never modified
WindowContents ==
    /\ [](\A k \in 1..Len(fn.sequences) :
            LET c == fn.sequences[k][1]
                w == fn.sequences[k][2]
                half == fn.window_size \div 2
            IN /\ Len(w) = fn.window_size
               /\ \A i \in 0..(fn.window_size - 1) :
                      At(w, i) = At(fn.all_frames, c - half + i)
               /\ At(w, half) = At(fn.all_frames, c))
    /\ [][fn'.all_frames = fn.all_frames]_vars

\* a window of three frames that differ has been taken from a longer input
AsymmetricWindow ==
    /\ fn.window_size = 3
    /\ Len(fn.all_frames) > 3
    /\ \E k \in 1..Len(fn.sequences) :
          /\ fn.sequences[k][1] = 2
          /\ fn.sequences[k][2] = <<"x", "x", "y">>

\* the channels of a window of L frames: the frames in order, then for each
\* consecutive pair its horizontal and its vertical flow
RECURSIVE PairChannels(_, _)
PairChannels(i, L) ==
    IF i >= L - 1 THEN <<>>
    ELSE <<<<"flow_x", i>>, <<"flow_y", i>>>> \o PairChannels(i + 1, L)

ChannelsFor(L) == [k \in 1..L |-> <<"frame", k - 1>>] \o PairChannels(0, L)

\* the call on the window has ended, by a return or by an exception
FeaturesEnded == fn.pc \in {"return", "raise"}

\* C17 as stated: for a window of L >= 1 frames of identical shape the feature
\* builder returns L + 2 (L - 1) channels, the frames in order followed by each
\* consecutive pair's horizontal then vertical flow; it raises only when the
\* frames differ in shape
FeaturesForAnyLength ==
    (FeaturesEnded /\ Len(fn.frames) >= 1) =>
        LET L == Len(fn.frames) IN
        /\ (L >= 1 /\ SameShape(fn.frames)) =>
              /\ fn.pc = "return"
              /\ Len(fn.input_array) = L + 2 * (L - 1)
              /\ fn.input_array = ChannelsFor(L)
        /\ fn.pc = "raise" => ~SameShape(fn.frames)

\* C17, amended: for a window of exactly 5 frames of identical shape and a
\* known flow method the feature builder returns 13 channels, the 5 frames in
\* order followed by each consecutive pair's horizontal then vertical flow; it
\* raises exactly when the window does not have 5 frames, its frames differ in
\* shape, or the flow method is unknown
FeaturesForFiveFrames ==
    FeaturesEnded =>
        LET L == Len(fn.frames) IN
        /\ (L = 5 /\ SameShape(fn.frames) /\ fn.flow_method \in KnownMethods) =>
              /\ fn.pc = "return"
              /\ Len(fn.input_array) = 13
              /\ fn.input_array = ChannelsFor(5)
        /\ fn.pc = "raise" <=>
              (L # 5 \/ ~SameShape(fn.frames) \/ fn.flow_method \notin KnownMethods)

\* the 13 channels of a window of five frames have been returned
ThirteenChannels ==
    /\ fn.pc = "return"
    /\ Len(fn.frames) = 5
    /\ Len(fn.input_array) = 13
    /\ fn.input_array[6] = <<"flow_x", 0>>
    /\ fn.input_array[13] = <<"flow_y", 3>>

\* the foreground of the input mask
Foreground == {c \in Cells : fn.mask[c] > 0}

\* two pixels touch when they are at most one row and one column apart
Touches(a, b) == a # b /\ a[1] - b[1] \in {-1, 0, 1} /\ a[2] - b[2] \in {-1, 0, 1}

\* the 8-connected blob of S around the pixels R
RECURSIVE Blob(_, _)
Blob(S, R) ==
    LET R2 == R \cup {x \in S : \E y \in R : Touches(x, y)} IN
    IF R2 = R THEN R ELSE Blob(S, R2)

\* the foreground is one 8-connected blob
SingleBlob == Foreground # {} /\ \A c \in Foreground : Blob(Foreground, {c}) = Foreground

\* the pixels set in cleaned
CleanedPixels == {c \in Cells : fn.cleaned[c] = 1}

\* the loop over the components has ended and the erosion has not been applied
BeforeErosion == fn.pc = "for" /\ fn.prop > fn.props

\* C18: for a mask whose foreground is a single 8-connected blob of area A,
\* clean_mask returns an all-zero mask whenever min_area > A, and whenever
\* min_area <= A the mask before erosion (and the returned mask when the
\* erosion kernel size is 0) is exactly the input blob
SingleBlobFiltered ==
    SingleBlob =>
        LET A == Cardinality(Foreground) IN
        /\ (fn.pc = "return" /\ fn.min_area > A) => fn.cleaned = Zeros
        /\ (BeforeErosion /\ fn.min_area <= A) =>
              /\ CleanedPixels = Foreground
              /\ \A c \in Cells : fn.cleaned[c] \in {0, 1}
        /\ (fn.pc = "return" /\ fn.erosion_kernel_size = 0 /\ fn.min_area <= A) =>
              CleanedPixels = Foreground

\* a blob of area 3 given with min_area = 3 has been returned unchanged, the
\* erosion being skipped
BlobOfMinAreaKept ==
    /\ fn.pc = "return"
    /\ SingleBlob
    /\ Cardinality(Foreground) = 3
    /\ fn.min_area = 3
    /\ fn.erosion_kernel_size = 0
    /\ CleanedPixels = Foreground

\* the pixels of the components that pass the area test, taken on the
\* un-eroded 8-connected components
LargeEnough == {c \in Foreground : Cardinality(Blob(Foreground, {c})) >= fn.min_area}

\* the offsets of the structuring element of size k
Element(k) ==
    IF k = 3 THEN {<<0, 0>>, <<-1, 0>>, <<1, 0>>, <<0, -1>>, <<0, 1>>} ELSE {<<0, 0>>}

\* C19: clean_mask binarizes, labels with 8-connectivity, drops every component
\* of area < min_area, then erodes once if the kernel size is > 0: before the
\* erosion the mask is the union of the components of area >= min_area
\* (diagonal contact counting as connection), and the returned mask is that
\* union eroded once, whatever the area left by the erosion
FilterThenErode ==
    /\ BeforeErosion => CleanedPixels = LargeEnough
    /\ fn.pc = "return" =>
          CleanedPixels =
             IF fn.erosion_kernel_size > 0
             THEN {c \in Cells :
                     \A o \in Element(fn.erosion_kernel_size) :
                        LET x == <<c[1] + o[1], c[2] + o[2]>> IN
                        x \in Cells => x \in LargeEnough}
             ELSE LargeEnough

\* a component of area 4 held together by a diagonal contact was kept for
\* min_area = 4 and eroded to a single pixel
DiagonalComponentEroded ==
    /\ fn.pc = "return"
    /\ Foreground = {<<0, 0>>, <<0, 1>>, <<1, 0>>, <<2, 1>>}
    /\ fn.min_area = 4
    /\ fn.erosion_kernel_size = 3
    /\ CleanedPixels = {<<0, 0>>}

\* the aspect ratio as the claim gives it: major / minor, or the long side of
\* the bounding box over its short side when the minor axis length is 0
StatedRatio(region) ==
    IF region.minor_axis_length > 0
    THEN <<region.major_axis_length, region.minor_axis_length>>
    ELSE LET height == region.bbox[3] - region.bbox[1]
             width == region.bbox[4] - region.bbox[2]
         IN  <<IF height > width THEN height ELSE width,
               IF height > width THEN width ELSE height>>

\* the tag the stated rule chain gives a region
StatedTag(region) ==
    LET r == StatedRatio(region) IN
    IF r[1] * 10 >= 30 * r[2] THEN "elongated"
    ELSE IF r[1] * 10 >= 20 * r[2] THEN (IF region.area > 200 THEN "rod_like" ELSE "other")
    ELSE IF r[1] * 10 < 18 * r[2] /\ region.solidity >= 80 THEN "compact"
    ELSE "other"

\* C20: classify_phenotype gives every component the one tag of the first
\* matching rule (aspect_ratio >= 3.0 elongated; 2.0 <= aspect_ratio < 3.0
\* rod_like when area > 200 and other otherwise; aspect_ratio < 1.8 with
\* solidity >= 0.8 compact; otherwise other), aspect_ratio being major / minor
\* axis length, or the bounding box's long / short side ratio when the minor
\* axis length is 0
PhenotypeByStatedRules ==
    fn.pc = "return" =>
        /\ fn.tag \in {"elongated", "rod_like", "compact", "other"}
        /\ fn.tag = StatedTag(fn.region)

\* the rule chain on the aspect ratio the code computed
ChainTag(ratio, area, solidity) ==
    IF ratio[1] * 10 >= 30 * ratio[2] THEN "elongated"
    ELSE IF ratio[1] * 10 >= 20 * ratio[2] THEN (IF area > 200 THEN "rod_like" ELSE "other")
    ELSE IF ratio[1] * 10 < 18 * ratio[2] /\ solidity >= 80 THEN "compact"
    ELSE "other"

\* the rule chain itself is followed on the ratio computed, and the two
\* readings of the ratio differ on the tag only for the straight line of 3 pixels
PhenotypeDiffersOnlyAtThree ==
    fn.pc = "return" =>
        /\ fn.tag = ChainTag(fn.aspect_ratio, fn.region.area, fn.region.solidity)
        /\ fn.tag # StatedTag(fn.region) =>
              /\ fn.region.minor_axis_length = 0
              /\ fn.region.area = 3
              /\ fn.tag = "other"

\* the row of 10 pixels has been tagged
LineOfTenElongated ==
    /\ fn.pc = "return"
    /\ fn.region.minor_axis_length = 0
    /\ fn.region.bbox = <<0, 0, 1, 10>>
    /\ fn.tag = "elongated"

\* a call of detect_division_events has returned
DivisionReturned == fn.pc = "return"

\* the frames flagged
Flagged == {fn.division_events[k] : k \in 1..Len(fn.division_events)}

\* the component count rises by exactly 1 at frame f
RisesByOne(f) ==
    /\ f < Len(fn.component_counts)
    /\ At(fn.component_counts, f) - At(fn.component_counts, f - 1) = 1

\* the growth value of the transition f-1 -> f exceeds the mean of all growth
\* values by more than growth_spike_std standard deviations, the deviation
\* being positive
ExceedsThreshold(f) ==
    LET g == RatesOf(fn.biomass_history)
        m == Len(g)
        k == fn.growth_spike_std
        sa == Total([j \in 1..m |-> g[j].log2])
        sc == Total([j \in 1..m |-> g[j].micro])
        v0 == m * Total([j \in 1..m |-> g[j].log2 * g[j].log2]) - sa * sa
        v1 == 2 * (m * Total([j \in 1..m |-> g[j].log2 * g[j].micro]) - sa * sc)
        v2 == m * Total([j \in 1..m |-> g[j].micro * g[j].micro]) - sc * sc
        d0 == m * g[f].log2 - sa
        d1 == m * g[f].micro - sc
        excess == Sign(<<d0 * d0 - k * k * v0, 2 * d0 * d1 - k * k * v1, d1 * d1 - k * k * v2>>)
    IN  /\ \A j \in 1..m : ~g[j].neg_inf
        /\ Sign(<<v0, v1, v2>>) > 0
        /\ Sign(<<d0, d1>>) > 0
        /\ excess > 0 \/ (excess = 0 /\ fn.rounds_up)

\* C21 as stated: with threshold 1 and n >= 3, every frame f in 1..n-1 at which
\* the component count rises by exactly 1 is in the result
RiseFlaggedFromOne ==
    (DivisionReturned /\ fn.component_increase_threshold = 1
        /\ Len(fn.biomass_history) >= 3) =>
        \A f \in 1..(Len(fn.biomass_history) - 1) : RisesByOne(f) => f \in Flagged

\* C21, amended: with threshold 1 and n >= 3, every frame f in 2..n-1 at which
\* the component count rises by exactly 1 is in the result, whatever the growth
\* rates; frame 1 is not, the detection loop starting at frame 2
RiseFlaggedFromTwo ==
    (DivisionReturned /\ fn.component_increase_threshold = 1
        /\ Len(fn.biomass_history) >= 3) =>
        /\ \A f \in 2..(Len(fn.biomass_history) - 1) : RisesByOne(f) => f \in Flagged
        /\ 1 \notin Flagged

\* a rise by one at frame 2 was flagged although the growth there is no spike
RiseFlaggedWithoutSpike ==
    /\ DivisionReturned
    /\ fn.component_increase_threshold = 1
    /\ Len(fn.biomass_history) >= 3
    /\ RisesByOne(2)
    /\ ~ExceedsThreshold(2)
    /\ 2 \in Flagged

\* the transitions whose growth value exceeds the threshold
Exceeding == {f \in 1..(Len(fn.biomass_history) - 1) : ExceedsThreshold(f)}

\* no component count is above the one before it
NoIncrease ==
    \A f \in 1..(Len(fn.component_counts) - 1) :
        At(fn.component_counts, f) <= At(fn.component_counts, f - 1)

\* C22 as stated: when exactly one growth value, that of the transition
\* f-1 -> f with 1 <= f <= n-1, exceeds mean + growth_spike_std * std and no
\* component count increases, the result is exactly <<f>>
SingleSpikeFromOne ==
    (DivisionReturned /\ Len(fn.biomass_history) >= 3 /\ NoIncrease) =>
        \A f \in 1..(Len(fn.biomass_history) - 1) :
            Exceeding = {f} => fn.division_events = <<f>>

\* C22, amended: when exactly one growth value, that of the transition
\* f-1 -> f, exceeds mean + growth_spike_std * std, no component count
\* increases and component_increase_threshold >= 1, the result is exactly
\* <<f>> for 2 <= f <= n-1 and is empty for f = 1
SingleSpikeFromTwo ==
    (DivisionReturned /\ Len(fn.biomass_history) >= 3 /\ NoIncrease
        /\ fn.component_increase_threshold >= 1) =>
        \A f \in 1..(Len(fn.biomass_history) - 1) :
            Exceeding = {f} =>
                fn.division_events = IF f >= 2 THEN <<f>> ELSE <<>>

\* the only growth value above the threshold is that of 1 -> 2, and frame 2
\* alone was returned
SingleSpikeFlagged ==
    /\ DivisionReturned
    /\ NoIncrease
    /\ fn.component_increase_threshold >= 1
    /\ Len(fn.biomass_history) >= 3
    /\ Exceeding = {2}
    /\ fn.division_events = <<2>>

RatesExported == fn.pc = "rates" /\ Len(fn.biomass_history) >= 1

\* C24: the growth-rate series of the pipeline has the length of the biomass
\* series, its first entry is 0, every later entry i is
\* ln(b[i] / (b[i-1] + 1e-6)), or 0 when b[i-1] = 0, and these are the growth
\* values the detector computed from the same series
PipelineGrowthSeries ==
    RatesExported =>
        LET b == fn.biomass_history IN
        /\ Len(fn.pipeline_rates) = Len(b)
        /\ fn.pipeline_rates[1] = ZeroRate
        /\ \A i \in 1..(Len(b) - 1) :
              At(fn.pipeline_rates, i) =
                 IF At(b, i - 1) = 0 THEN ZeroRate
                 ELSE LogRate(At(b, i), At(b, i - 1))
        /\ Len(b) >= 3 => Tail(fn.pipeline_rates) = fn.growth_rates

\* a series with a zero rate after an empty frame and a logarithm after it
GrowthAfterEmptyFrame ==
    /\ RatesExported
    /\ fn.biomass_history = <<0, 1, 2, 2>>
    /\ fn.pipeline_rates[2] = ZeroRate
    /\ fn.pipeline_rates[3].log2 = 1
    /\ fn.pipeline_rates[4].log2 = 0
    /\ fn.pipeline_rates[4].micro < 0

\* C26: every index in the result lies in 2..n-1, so frames 0 and 1 are never
\* flagged, and an index beyond the end of the component-count series is
\* flagged only through the growth-spike condition
FlaggedRange ==
    \A f \in Flagged :
        /\ 2 <= f
        /\ f <= Len(fn.biomass_history) - 1
        /\ f >= Len(fn.component_counts) => ExceedsThreshold(f)

\* a frame beyond the component-count series has been flagged
FlaggedBeyondCounts ==
    /\ DivisionReturned
    /\ \E f \in Flagged : f >= Len(fn.component_counts)
    /\ RisesByOne(1)

\* the worker of j has windowed its input without error and got no window
ZeroWindows(j) == W(j).detector_in # None /\ W(j).nwin = 0

\* C27: a job whose input yields zero temporal windows is never Completed: the
\* empty window sequence raises nothing, the only step that raises for it is
\* the video writing ("No frames to write"), no video and no metrics file are
\* written, and once its worker has ended the job is Failed with that error
ZeroWindowsFail ==
    \A j \in JobIds :
        ZeroWindows(j) =>
            /\ ~W(j).video
            /\ ~W(j).csv
            /\ W(j).raised => W(j).exc = "No frames to write"
            /\ W(j).pc = "done" => W(j).raised
            /\ j \in DOMAIN jobs =>
                  /\ jobs[j].status # COMPLETED
                  /\ jobs[j].results = None
                  /\ W(j).pc = "done" =>
                        /\ jobs[j].status = FAILED
                        /\ jobs[j].error = Some("No frames to write")

\* the worker of a job without windows has ended and the job is Failed
ZeroWindowsFailed ==
    \E j \in JobIds :
        /\ ZeroWindows(j)
        /\ W(j).pc = "done"
        /\ j \in DOMAIN jobs
        /\ jobs[j].status = FAILED
        /\ jobs[j].error = Some("No frames to write")

\* C28: across any interleaving of concurrently started job workers,
\* get_inference_engine constructs at most one InferenceEngine, the instance
\* every worker receives
EngineConstructedOnce == engines <= 1

\* C30: clean_mask never adds foreground: every pixel set in the output (and in
\* the mask at every step) is set in the binarized input, the output holds
\* only 0 and 1, and with min_area = 0 and the erosion disabled the output is
\* the binarized input
NoForegroundAdded ==
    /\ CleanedPixels \subseteq Foreground
    /\ \A c \in Cells : fn.cleaned[c] \in {0, 1}
    /\ fn.pc = "return" =>
          /\ Cardinality(CleanedPixels) <= Cardinality(Foreground)
          /\ (fn.min_area = 0 /\ fn.erosion_kernel_size = 0) =>
                fn.cleaned = [c \in Cells |-> IF fn.mask[c] > 0 THEN 1 ELSE 0]

\* a mask of two separate pixels of value 255 was returned binarized, nothing
\* being filtered or eroded
BinarizedReturned ==
    /\ fn.pc = "return"
    /\ fn.min_area = 0
    /\ fn.erosion_kernel_size = 0
    /\ Foreground = {<<0, 0>>, <<2, 2>>}
    /\ fn.mask[<<0, 0>>] = 255
    /\ CleanedPixels = Foreground

AnalyzeReturned == fn.op = "analyze_frame" /\ fn.pc = "return"

\* the sum of the areas of the first n returned components
RECURSIVE AreaOfComponents(_)
AreaOfComponents(n) ==
    IF n = 0 THEN 0 ELSE fn.components[n].area + AreaOfComponents(n - 1)

\* the sum of the values of the phenotype counts
CountedComponents ==
    fn.phenotype_counts["rod_like"] + fn.phenotype_counts["elongated"]
      + fn.phenotype_counts["compact"] + fn.phenotype_counts["other"]

\* C29: for every binary mask, analyze_frame returns phenotype counts over
\* exactly the four categories whose values sum to the number of components
\* returned; every returned component carries one of the four tags; and the
\* returned biomass, the number of foreground pixels, equals the sum of the
\* areas of the returned components.
AnalyzeFrameTotals ==
    AnalyzeReturned =>
        /\ DOMAIN fn.phenotype_counts = {"rod_like", "elongated", "compact", "other"}
        /\ CountedComponents = Len(fn.components)
        /\ \A n \in 1..Len(fn.components) :
              fn.components[n].phenotype \in {"rod_like", "elongated", "compact", "other"}
        /\ fn.biomass = Cardinality(Foreground)
        /\ fn.biomass = AreaOfComponents(Len(fn.components))

\* a mask with a three-pixel line and a separate pixel returns two components
\* with different tags
TwoComponentsTwoTags ==
    /\ AnalyzeReturned
    /\ Len(fn.components) = 2
    /\ fn.biomass = 4
    /\ fn.components[1].phenotype = "elongated"
    /\ fn.components[2].phenotype = "compact"
    /\ fn.phenotype_counts["elongated"] = 1
    /\ fn.phenotype_counts["compact"] = 1

\* the end-to-end case: 7 identical frames, min_area = 0, threshold = 0.5 and a
\* predictor that returns 1.0 at every pixel of every window
SevenIdenticalFrames ==
    /\ fn.op = "_run_inference_pipeline"
    /\ fn.n_frames = 7
    /\ fn.min_area = 0
    /\ fn.threshold = Half
    /\ \A c \in Cells : fn.pred_mask[c] = 10

\* what the case yields apart from the growth rates: 3 analyzed frames of equal
\* biomass, no division event and every flag 0, 3 rows exported, the job
\* Completed
ThreeConstantFrames ==
    /\ Len(fn.all_biomass) = 3
    /\ \A k \in 1..3 : fn.all_biomass[k] = fn.all_biomass[1]
    /\ fn.division_events = <<>>
    /\ Len(fn.rows) = 3
    /\ \A k \in 1..3 : fn.rows[k].division_like = 0
    /\ \A k \in 1..3 : fn.rows[k].area_pred = fn.all_biomass[1]
    /\ fn.rows[1].growth_pred = ZeroRate
    /\ jobs["A"].status = COMPLETED

\* C25 as stated: for 7 identical frames with min_area = 0, threshold = 0.5 and
\* an all-ones predictor, exactly 3 frames are analyzed, their biomass is the
\* same, the growth rate is 0 for every analyzed frame after the first, the
\* detector returns no events (every division flag is 0), the metrics export
\* has exactly 3 rows and the job ends Completed.
EndToEndZeroGrowth ==
    SevenIdenticalFrames =>
        /\ fn.pc # "raised"
        /\ fn.pc = "done" =>
              /\ ThreeConstantFrames
              /\ \A k \in 2..3 : fn.rows[k].growth_pred = ZeroRate

\* C25, amended: as stated, except that the growth rate of every analyzed frame
\* after the first is ln(b / (b + 1e-6)) for the constant biomass b: below 0,
\* about -1e-6 / b.
EndToEndEpsilonGrowth ==
    SevenIdenticalFrames =>
        /\ fn.pc # "raised"
        /\ fn.pc = "done" =>
              /\ ThreeConstantFrames
              /\ \A k \in 2..3 :
                    /\ ~fn.rows[k].growth_pred.neg_inf
                    /\ fn.rows[k].growth_pred.log2 = 0
                    /\ fn.rows[k].growth_pred.micro < 0
                    /\ fn.rows[k].growth_pred.micro * fn.all_biomass[1] = 0 - EpsilonUnits

\* the run on 7 identical all-ones frames has completed with 3 rows
SevenFramesCompleted ==
    /\ SevenIdenticalFrames
    /\ fn.pc = "done"
    /\ Len(fn.rows) = 3
    /\ fn.all_biomass = <<9, 9, 9>>
    /\ fn.rows[3].growth_pred.micro < 0
    /\ jobs["A"].status = COMPLETED
====
